---------------------------- MODULE Spec2Model ----------------------------
(***************************************************************************)
(* Centerline landmarking engines of morphMan (Bogunovic, Piccinelli,      *)
(* Kjeldsberg) with the shared extrema detection and landmark mapper.      *)
(*                                                                         *)
(* A point of a curve is its position along one axis (an integer), a curve *)
(* is a strictly increasing sequence of positions.  Curve indices are      *)
(* 0-based as in the source; At(s, i) reads index i of a sequence.         *)
(* A Python dict is a sequence of <<key, value>> pairs in insertion order. *)
(***************************************************************************)
EXTENDS Integers, Sequences, FiniteSets, TLC

VARIABLES pc, algorithm, method, resampling, centerline, line, curvature,
          max_point_ids, min_point_ids, max_point_tor_ids, theta,
          max_coronal_coordinate_id, index, start, interfaces, landmarks,
          written, exported, kj, coronal_coordinate, torsion_smooth

vars == <<pc, algorithm, method, resampling, centerline, line, curvature,
          max_point_ids, min_point_ids, max_point_tor_ids, theta,
          max_coronal_coordinate_id, index, start, interfaces, landmarks,
          written, exported, kj, coronal_coordinate, torsion_smooth>>

(***************************************************************************)
(* Bounds of the model.                                                    *)
(***************************************************************************)
\* number of points of the input centerline of the small curves
NumPoints == 11
\* distance between two points of the input centerline
InputSpacing == 4
\* resampling_step, when it is not None
ResampleStep == 5
\* largest deviation of a spline-fitted point from its data point
SplineDev == 1
\* number of points of the input centerline of the long curves
LongNumPoints == 400
\* most landmarks of a set handed to the mapper alone
MaxLandmarks == 3
\* largest line index of such a landmark
MaxIndex == 4
\* curvature samples take the values 0..MaxCurv, in units of half the saddle
\* tolerance
MaxCurv == 2
\* number of points of the input centerline of the Kjeldsberg engine
KjNumPoints == 100
\* most points the seed selector hands back for one prompt
MaxPicked == 2
\* most times one prompt is shown
MaxAttempts == 3

(***************************************************************************)
(* Generic helpers.                                                        *)
(***************************************************************************)
\* Python's None, where an index is expected (indices are never negative)
None == 0 - 1

Abs(x) == IF x < 0 THEN -x ELSE x

Min2(a, b) == IF a < b THEN a ELSE b

At(s, i) == s[i + 1]

Last(s) == s[Len(s)]

Range(s) == {s[q] : q \in 1..Len(s)}

SetMin(S) == CHOOSE x \in S : \A y \in S : x <= y

SetMax(S) == CHOOSE x \in S : \A y \in S : x >= y

RECURSIVE SortedSeq(_)
SortedSeq(S) ==
    IF S = {} THEN <<>>
    ELSE LET m == SetMin(S) IN <<m>> \o SortedSeq(S \ {m})

\* list.remove(x): drops the first occurrence of x
RECURSIVE ListRemove(_, _)
ListRemove(s, x) ==
    IF s = <<>> THEN <<>>
    ELSE IF Head(s) = x THEN Tail(s)
    ELSE <<Head(s)>> \o ListRemove(Tail(s), x)

IsStrictlyIncreasing(s) == \A q \in 1..(Len(s) - 1) : s[q] < s[q + 1]

\* d[k] = v on a dict: an existing key keeps its place
DictSet(d, k, v) ==
    IF \E q \in 1..Len(d) : d[q][1] = k
    THEN [q \in 1..Len(d) |-> IF d[q][1] = k THEN <<k, v>> ELSE d[q]]
    ELSE Append(d, <<k, v>>)

DictKeys(d) == [q \in 1..Len(d) |-> d[q][1]]

DictValues(d) == [q \in 1..Len(d) |-> d[q][2]]

DictHas(d, k) == \E q \in 1..Len(d) : d[q][1] = k

DictGet(d, k) == d[CHOOSE q \in 1..Len(d) : d[q][1] = k][2]

(***************************************************************************)
(* Curves and the external geometry provider.                              *)
(***************************************************************************)
\* the centerline handed to an engine
InputCenterline == [q \in 1..NumPoints |-> (q - 1) * InputSpacing]

\* the centerline handed to an engine that counts in tens of indices
LongCenterline == [q \in 1..LongNumPoints |-> (q - 1) * InputSpacing]

\* vmtk_resample_centerline: points every `step` from the first point on
Resample(curve, step) ==
    LET extent == Last(curve) - curve[1]
    IN  [q \in 1..((extent \div step) + 1) |-> curve[1] + (q - 1) * step]

\* splrep/splev: the fitted points lie within d of the data points
SplineFit(curve, d) ==
    [q \in 1..Len(curve) |-> curve[q] + (IF q % 2 = 0 THEN d ELSE 0)]

\* get_curvilinear_coordinate
CurvilinearCoordinate(curve) == [q \in 1..Len(curve) |-> curve[q] - curve[1]]

\* vtkPointLocator.FindClosestPoint: index (0-based) of a point of the curve
\* at the least distance from p
FindClosestPoint(curve, p) ==
    LET d == SetMin({Abs(curve[r] - p) : r \in 1..Len(curve)})
    IN  SetMin({q \in 1..Len(curve) : Abs(curve[q] - p) = d}) - 1

(***************************************************************************)
(* Extrema detection.                                                      *)
(***************************************************************************)
\* curvature profiles: valley samples at even indices, peak samples at odd
Signals(n) ==
    {[q \in 1..n |-> b[q] + (IF q % 2 = 0 THEN MaxCurv - 1 ELSE 0)] :
        b \in [1..n -> 0..1]}

\* a comparator that also accepts equal neighbours
CompareNonStrict(kind, a, b) ==
    CASE kind \in {"greater", "greater_equal"} -> a >= b
      [] kind \in {"less", "less_equal"} -> a <= b

\* np.greater, np.less, np.greater_equal, np.less_equal
Compare(kind, a, b) ==
    CASE kind = "greater" -> a > b
      [] kind = "less" -> a < b
      [] kind = "greater_equal" -> a >= b
      [] kind = "less_equal" -> a <= b

\* scipy.signal.argrelextrema(data, comparator)[0], order 1, mode 'clip':
\* an end sample is compared with itself
ArgRelExtremaSet(data, kind) ==
    LET n == Len(data)
    IN  {q - 1 : q \in {r \in 1..n :
            /\ Compare(kind, data[r], data[IF r = 1 THEN 1 ELSE r - 1])
            /\ Compare(kind, data[r], data[IF r = n THEN n ELSE r + 1])}}

\* the same as the increasing list numpy returns
ArgRelExtrema(data, kind) == SortedSeq(ArgRelExtremaSet(data, kind))

\* spline_centerline_and_compute_geometric_features: the extrema of the spline
\* curvature, paired by zip and mapped through the point locator of the
\* splined line; <<max_point_ids, min_point_ids>>
SplineExtrema(spline_line, curvature_) ==
    LET maxs == ArgRelExtrema(curvature_, "greater")
        mins == ArgRelExtrema(curvature_, "less")
        min_points == [q \in 1..Len(mins) |-> At(spline_line, mins[q])]
        max_points == [q \in 1..Len(maxs) |-> At(spline_line, maxs[q])]
        k == Min2(Len(min_points), Len(max_points))
    IN  << [q \in 1..k |-> FindClosestPoint(spline_line, max_points[q])],
           [q \in 1..k |-> FindClosestPoint(spline_line, min_points[q])] >>

\* argrelextrema(curvature, np.greater) and argrelextrema(curvature, np.less)
DiscreteExtrema(curvature_) ==
    << ArgRelExtrema(curvature_, "greater"), ArgRelExtrema(curvature_, "less") >>

(***************************************************************************)
(* Bogunovic: saddle suppression.  Both loops iterate over lists that the  *)
(* body shortens: a Python list iterator keeps a position, so the element  *)
(* that moves into the freed place is not visited.                         *)
(***************************************************************************)
SaddleDist == 5
SaddleTol == 2

IsSaddle(curv, i, j) ==
    Abs(i - j) < SaddleDist /\ Abs(At(curv, i) - At(curv, j)) < SaddleTol

\* for j in max_point_ids: ... at iterator position jq, for the minimum i
RECURSIVE SaddleInner(_, _, _, _, _)
SaddleInner(curv, i, jq, mins, maxs) ==
    IF jq > Len(maxs) THEN <<mins, maxs>>
    ELSE LET j == maxs[jq] IN
         IF IsSaddle(curv, i, j)
         THEN SaddleInner(curv, i, jq + 1,
                          IF i \in Range(mins) THEN ListRemove(mins, i) ELSE mins,
                          ListRemove(maxs, j))
         ELSE SaddleInner(curv, i, jq + 1, mins, maxs)

\* for i in min_point_ids: ... at iterator position iq
RECURSIVE SaddleOuter(_, _, _, _)
SaddleOuter(curv, iq, mins, maxs) ==
    IF iq > Len(mins) THEN <<mins, maxs>>
    ELSE LET r == SaddleInner(curv, mins[iq], 1, mins, maxs)
         IN  SaddleOuter(curv, iq + 1, r[1], r[2])

\* <<min_point_ids, max_point_ids>> after the saddle loop
RemoveSaddlePoints(curv, mins, maxs) == SaddleOuter(curv, 1, mins, maxs)

(***************************************************************************)
(* Landmark mapper (shared).                                               *)
(***************************************************************************)
BendKey(k) == "bend" \o ToString(k)

CKey(k) == "C" \o ToString(k)

\* the loop of map_landmarks without the test for a duplicate
RECURSIVE MapLoopKeepDuplicates(_, _, _, _, _, _, _)
MapLoopKeepDuplicates(lm, q, curve, alg, mapped_landmarks, landmark_ids, k) ==
    IF q > Len(lm) THEN mapped_landmarks
    ELSE LET landmark_id == FindClosestPoint(curve, lm[q][2])
         IN  IF alg \in {"kjeldsberg", "piccinelli"}
             THEN MapLoopKeepDuplicates(lm, q + 1, curve, alg,
                     DictSet(mapped_landmarks,
                             IF alg = "kjeldsberg" THEN CKey(k) ELSE BendKey(k),
                             At(curve, landmark_id)),
                     Append(landmark_ids, landmark_id), k + 1)
             ELSE LET lm2 == DictSet(lm, lm[q][1], At(curve, landmark_id))
                  IN  MapLoopKeepDuplicates(lm2, q + 1, curve, alg, lm2,
                                            landmark_ids, k)

\* the loop of map_landmarks with k counting the duplicates too
RECURSIVE MapLoopCountDuplicates(_, _, _, _, _, _, _)
MapLoopCountDuplicates(lm, q, curve, alg, mapped_landmarks, landmark_ids, k) ==
    IF q > Len(lm) THEN mapped_landmarks
    ELSE LET landmark_id == FindClosestPoint(curve, lm[q][2])
         IN  IF alg \in {"kjeldsberg", "piccinelli"}
             THEN IF landmark_id \in Range(landmark_ids)
                  THEN MapLoopCountDuplicates(lm, q + 1, curve, alg,
                          mapped_landmarks, landmark_ids, k + 1)
                  ELSE MapLoopCountDuplicates(lm, q + 1, curve, alg,
                          DictSet(mapped_landmarks,
                                  IF alg = "kjeldsberg" THEN CKey(k)
                                  ELSE BendKey(k),
                                  At(curve, landmark_id)),
                          Append(landmark_ids, landmark_id), k + 1)
             ELSE LET lm2 == DictSet(lm, lm[q][1], At(curve, landmark_id))
                  IN  MapLoopCountDuplicates(lm2, q + 1, curve, alg, lm2,
                                             landmark_ids, k)

\* the body of `for key in landmarks` of map_landmarks, from position q on;
\* lm is the dict `landmarks` (rewritten in place for bogunovic)
RECURSIVE MapLoop(_, _, _, _, _, _, _)
MapLoop(lm, q, curve, alg, mapped_landmarks, landmark_ids, k) ==
    IF q > Len(lm) THEN mapped_landmarks
    ELSE LET key == lm[q][1]
             landmark == lm[q][2]
             landmark_id == FindClosestPoint(curve, landmark)
             landmark_mapped == At(curve, landmark_id)
         IN  IF alg \in {"kjeldsberg", "piccinelli"}
             THEN IF landmark_id \in Range(landmark_ids)
                  THEN MapLoop(lm, q + 1, curve, alg, mapped_landmarks,
                               landmark_ids, k)
                  ELSE MapLoop(lm, q + 1, curve, alg,
                               DictSet(mapped_landmarks,
                                       IF alg = "kjeldsberg" THEN CKey(k)
                                       ELSE BendKey(k),
                                       landmark_mapped),
                               Append(landmark_ids, landmark_id), k + 1)
             ELSE IF alg = "bogunovic"
             THEN LET lm2 == DictSet(lm, key, landmark_mapped)
                  IN  MapLoop(lm2, q + 1, curve, alg, lm2, landmark_ids, k)
             ELSE MapLoop(lm, q + 1, curve, alg, mapped_landmarks,
                          landmark_ids, k)

\* map_landmarks(landmarks, centerline, algorithm)
MapLandmarks(lm, curve, alg) == MapLoop(lm, 1, curve, alg, <<>>, <<>>, 1)

\* landmarks[k] = line.GetPoint(int(v)) for k, v in interfaces.items()
SetLandmarks(ifs, ln) == [q \in 1..Len(ifs) |-> <<ifs[q][1], At(ln, ifs[q][2])>>]

\* v is the id of a point of the line
IsPointId(ln, v) == v \in 0..(Len(ln) - 1)

\* the same where GetPoint is handed an id that is no point id: what it
\* returns is not defined, here some point `stray`
GetPoints(ifs, ln, stray) ==
    [q \in 1..Len(ifs) |->
        <<ifs[q][1], IF IsPointId(ln, ifs[q][2]) THEN At(ln, ifs[q][2])
                     ELSE stray>>]

(***************************************************************************)
(* Coronal extremum with its sanity check.                                 *)
(***************************************************************************)
\* coronal coordinate profiles: flat but for one lowest sample at index lo
\* and one highest sample at index hi, each near an end of the curve
CoronalPositions(n) == {0, 1, n - 3, n - 1}

CoronalSignals(n) ==
    {[q \in 1..n |-> IF q - 1 = lo THEN 0 ELSE IF q - 1 = hi THEN 2 ELSE 1] :
        <<lo, hi>> \in {w \in CoronalPositions(n) \X CoronalPositions(n) :
                          w[1] # w[2]}}

\* coronal_coordinate.tolist().index(value)
FirstIndexOf(z, v) == SetMin({q \in 1..Len(z) : z[q] = v}) - 1

\* z[argrelextrema(z, np.less_equal)[0]].min() and its first index
CoronalMinimumId(z) ==
    FirstIndexOf(z, SetMin({At(z, i) : i \in ArgRelExtremaSet(z, "less_equal")}))

\* z[argrelextrema(z, np.greater_equal)[0]].max() and its first index
CoronalMaximumId(z) ==
    FirstIndexOf(z, SetMax({At(z, i) : i \in ArgRelExtremaSet(z, "greater_equal")}))

SanityTolerance == 30

\* the same with three quarters of the length of the curve as the tolerance
GetMaximumCoronalCoordinateRelative(z, length) ==
    LET far(id) == 4 * Abs(At(length, id) - Last(length)) > 3 * Last(length)
        id0 == CoronalMinimumId(z)
        id1 == CoronalMaximumId(z)
    IN  IF ~far(id0) THEN id0
        ELSE IF ~far(id1) THEN id1
        ELSE None

\* get_maximum_coronal_coordinate: the index, or None for sys.exit(1)
GetMaximumCoronalCoordinate(z, length) ==
    LET far(id) == Abs(At(length, id) - Last(length)) > SanityTolerance
        id0 == CoronalMinimumId(z)
        id1 == CoronalMaximumId(z)
    IN  IF ~far(id0) THEN id0
        ELSE IF ~far(id1) THEN id1
        ELSE None

\* the lines an engine of the small curves works on
Lines ==
    LET resampled == Resample(InputCenterline, ResampleStep)
    IN  {InputCenterline, resampled, SplineFit(InputCenterline, SplineDev),
         SplineFit(resampled, SplineDev)}

\* <<ln, id>>: get_maximum_coronal_coordinate answers id on the line ln for
\* one of the coronal profiles
CoronalOutcomes ==
    UNION {{<<ln, GetMaximumCoronalCoordinate(z, CurvilinearCoordinate(ln))>> :
               z \in CoronalSignals(Len(ln))} : ln \in Lines}

(***************************************************************************)
(* Bogunovic rule engine.                                                  *)
(***************************************************************************)
tol_ant_post == 60
tol_sup_ant == 45
tol_post_inf == 45
tol_inf_end == 110

\* turning angles in degrees, one in each band the tolerances cut
ThetaValues == {30, 50, 100, 120}

\* the positions the scan of find_interface visits, in range(start - 1, stop,
\* direction), at which theta exceeds tol
Crossings(th, st, direction, tol) ==
    IF direction = -1
    THEN {i \in 0..(st - 1) : At(th, i) > tol}
    ELSE {i \in (st - 1)..(Len(th) - 1) : At(th, i) > tol}

\* the last of them in scan order
LastCrossing(th, st, direction, tol) ==
    IF direction = -1 THEN SetMin(Crossings(th, st, direction, tol))
    ELSE SetMax(Crossings(th, st, direction, tol))

\* the first of them in scan order
FirstCrossing(th, st, direction, tol) ==
    IF direction = -1 THEN SetMax(Crossings(th, st, direction, tol))
    ELSE SetMin(Crossings(th, st, direction, tol))

\* find_interface(start, direction, tol, part): what it returns (an index or
\* None), the dict interfaces afterwards, and whether .max() raised on an
\* empty selection of minima
FindInterface(th, maxs, mins, ifs, st, direction, tol, part) ==
    LET success == Crossings(th, st, direction, tol) # {}
        i == FirstCrossing(th, st, direction, tol)
        between == {m \in Range(mins) : At(maxs, i) < m /\ m < At(maxs, i + 1)}
    IN  IF success
        THEN IF between = {}
             THEN [raised |-> TRUE, ret |-> None, interfaces |-> ifs]
             ELSE [raised |-> FALSE, ret |-> i,
                   interfaces |-> DictSet(ifs, part, SetMax(between))]
        ELSE IF part = "inf_end"
        THEN [raised |-> FALSE, ret |-> 0,
              interfaces |-> DictSet(ifs, "inf_end", 0)]
        ELSE [raised |-> FALSE, ret |-> None, interfaces |-> ifs]

\* the state of an engine on entry
EngineInit(alg, methods, curve) ==
    /\ pc = "start"
    /\ algorithm = alg
    /\ method \in methods
    /\ resampling \in BOOLEAN
    /\ centerline = curve
    /\ line = <<>>
    /\ curvature = <<>>
    /\ max_point_ids = <<>>
    /\ min_point_ids = <<>>
    /\ max_point_tor_ids = <<>>
    /\ theta = <<>>
    /\ max_coronal_coordinate_id = None
    /\ index = None
    /\ start = None
    /\ interfaces = <<>>
    /\ landmarks = <<>>
    /\ written = <<>>
    /\ exported = FALSE
    /\ kj = None
    /\ coronal_coordinate = <<>>
    /\ torsion_smooth = <<>>

\* the approximation methods landmarking_bogunovic has a branch for
BogMethods == {"vmtk", "disc", "spline"}

\* the approximation methods a caller may name: those of the command line
\* and, for a call of the function itself, any other string
RequestedMethods == {"vmtk", "disc", "spline", "other"}

BogInit == EngineInit("bogunovic", RequestedMethods, InputCenterline)

\* if resampling_step is not None: centerline = vmtk_resample_centerline(...)
ResampleCenterline ==
    /\ pc = "start"
    /\ centerline' = IF resampling THEN Resample(centerline, ResampleStep)
                     ELSE centerline
    /\ pc' = "attributes"
    /\ UNCHANGED <<algorithm, method, resampling, line, curvature,
                   max_point_ids, min_point_ids, max_point_tor_ids, theta,
                   max_coronal_coordinate_id, index, start, interfaces,
                   landmarks, written, exported, kj,
                   coronal_coordinate, torsion_smooth>>

\* the line with its curvature, and the extrema of the curvature
BogAttributes ==
    /\ pc = "attributes"
    /\ algorithm = "bogunovic"
    /\ method \in BogMethods
    /\ \E sig \in Signals(Len(centerline)) :
          /\ line' = IF method = "spline"
                     THEN SplineFit(centerline, SplineDev)
                     ELSE centerline
          /\ curvature' = sig
          /\ LET ext == IF method = "spline" THEN SplineExtrema(line', sig)
                        ELSE DiscreteExtrema(sig)
             IN  /\ max_point_ids' = ext[1]
                 /\ min_point_ids' = ext[2]
    /\ pc' = "saddle"
    /\ UNCHANGED <<algorithm, method, resampling, centerline,
                   max_point_tor_ids, theta, max_coronal_coordinate_id, index,
                   start, interfaces, landmarks, written, exported, kj,
                   coronal_coordinate, torsion_smooth>>

\* no branch of the if / elif chain is taken, and argrelextrema(curvature,
\* np.greater) reads the unbound name curvature
BogUnknownMethod ==
    /\ pc = "attributes"
    /\ algorithm = "bogunovic"
    /\ method \notin BogMethods
    /\ pc' = "raised"
    /\ UNCHANGED <<algorithm, method, resampling, centerline, line, curvature,
                   max_point_ids, min_point_ids, max_point_tor_ids, theta,
                   max_coronal_coordinate_id, index, start, interfaces,
                   landmarks, written, exported, kj,
                   coronal_coordinate, torsion_smooth>>

\* the saddle loop; the curvature is not read after it
BogSaddle ==
    /\ pc = "saddle"
    /\ LET r == RemoveSaddlePoints(curvature, min_point_ids, max_point_ids)
       IN  /\ min_point_ids' = r[1]
           /\ max_point_ids' = r[2]
    /\ curvature' = <<>>
    /\ pc' = "theta"
    /\ UNCHANGED <<algorithm, method, resampling, centerline, line,
                   max_point_tor_ids, theta, max_coronal_coordinate_id, index,
                   start, interfaces, landmarks, written, exported, kj,
                   coronal_coordinate, torsion_smooth>>

\* theta[i]: the angle between the (k1, k2) vectors of maxima i and i + 1;
\* np.zeros(-1) raises when no maximum is left
BogTheta ==
    /\ pc = "theta"
    /\ IF Len(max_point_ids) = 0
       THEN pc' = "raised" /\ theta' = theta
       ELSE /\ \E th \in [1..(Len(max_point_ids) - 1) -> ThetaValues] :
                  theta' = th
            /\ pc' = "coronal"
    /\ UNCHANGED <<algorithm, method, resampling, centerline, line, curvature,
                   max_point_ids, min_point_ids, max_point_tor_ids,
                   max_coronal_coordinate_id, index, start, interfaces,
                   landmarks, written, exported, kj,
                   coronal_coordinate, torsion_smooth>>

\* the coronal extremum, and the last curvature maximum before it
BogCoronal ==
    /\ pc = "coronal"
    /\ \E o \in CoronalOutcomes :
          LET id == o[2]
              before == {q \in 0..(Len(max_point_ids) - 1) :
                            id > At(max_point_ids, q)}
          IN  /\ o[1] = line
              /\ max_coronal_coordinate_id' = id
              /\ IF id = None
                 THEN pc' = "exit" /\ index' = index
                 ELSE IF before = {}
                 THEN pc' = "raised" /\ index' = index
                 ELSE pc' = "ant_post" /\ index' = SetMax(before)
    /\ start' = start
    /\ UNCHANGED <<algorithm, method, resampling, centerline, line, curvature,
                   max_point_ids, min_point_ids, max_point_tor_ids, theta,
                   interfaces, landmarks, written, exported, kj,
                   coronal_coordinate, torsion_smooth>>

\* one call of find_interface without the test of its result for None
BogFindInterfaceUnchecked(part, st, direction, tol, next) ==
    /\ pc = part
    /\ LET r == FindInterface(theta, max_point_ids, min_point_ids, interfaces,
                              st, direction, tol, part)
       IN  /\ interfaces' = r.interfaces
           /\ start' = r.ret
           /\ pc' = IF r.raised THEN "raised" ELSE next
    /\ UNCHANGED <<algorithm, method, resampling, centerline, line, curvature,
                   max_point_ids, min_point_ids, max_point_tor_ids, theta,
                   max_coronal_coordinate_id, index, landmarks, written,
                   exported, kj,
                   coronal_coordinate, torsion_smooth>>

\* one call of find_interface and the test of its result
BogFindInterface(part, st, direction, tol, next) ==
    /\ pc = part
    /\ LET r == FindInterface(theta, max_point_ids, min_point_ids, interfaces,
                              st, direction, tol, part)
       IN  /\ interfaces' = r.interfaces
           /\ start' = r.ret
           /\ pc' = IF r.raised THEN "raised"
                    ELSE IF r.ret = None THEN "returned_none"
                    ELSE next
    /\ UNCHANGED <<algorithm, method, resampling, centerline, line, curvature,
                   max_point_ids, min_point_ids, max_point_tor_ids, theta,
                   max_coronal_coordinate_id, index, landmarks, written,
                   exported, kj,
                   coronal_coordinate, torsion_smooth>>

BogAntPost == BogFindInterface("ant_post", index, -1, tol_ant_post, "post_inf")

BogPostInf == BogFindInterface("post_inf", start, -1, tol_post_inf, "inf_end")

BogInfEnd == BogFindInterface("inf_end", start, -1, tol_inf_end, "sup_ant")

\* the scan for sup_ant started one maximum too early
BogSupAntFromIndex == BogFindInterface("sup_ant", index, 1, tol_sup_ant, "landmarks")

BogSupAnt == BogFindInterface("sup_ant", index + 1, 1, tol_sup_ant, "landmarks")

\* the landmark points and map_landmarks; GetPoint of an id that is no point
\* id either fails or returns some point
SetAndMapLandmarks ==
    /\ pc = "landmarks"
    /\ IF \A q \in 1..Len(interfaces) : IsPointId(line, interfaces[q][2])
       THEN /\ landmarks' = MapLandmarks(SetLandmarks(interfaces, line),
                                         centerline, algorithm)
            /\ pc' = "save"
       ELSE \/ /\ pc' = "raised"
               /\ landmarks' = landmarks
            \/ /\ \E stray \in {line[1], Last(line)} :
                     landmarks' = MapLandmarks(GetPoints(interfaces, line, stray),
                                               centerline, algorithm)
               /\ pc' = "save"
    /\ UNCHANGED <<algorithm, method, resampling, centerline, line, curvature,
                   max_point_ids, min_point_ids, max_point_tor_ids, theta,
                   max_coronal_coordinate_id, index, start, interfaces,
                   written, exported, kj,
                   coronal_coordinate, torsion_smooth>>

\* write_parameters(landmarks, base_path) and create_particles(...)
SaveLandmarks ==
    /\ pc = "save"
    /\ written' = landmarks
    /\ exported' = TRUE
    /\ pc' = "done"
    /\ UNCHANGED <<algorithm, method, resampling, centerline, line, curvature,
                   max_point_ids, min_point_ids, max_point_tor_ids, theta,
                   max_coronal_coordinate_id, index, start, interfaces,
                   landmarks, kj,
                   coronal_coordinate, torsion_smooth>>

BogNext ==
    \/ ResampleCenterline
    \/ BogAttributes
    \/ BogUnknownMethod
    \/ BogSaddle
    \/ BogTheta
    \/ BogCoronal
    \/ BogAntPost
    \/ BogPostInf
    \/ BogInfEnd
    \/ BogSupAnt
    \/ SetAndMapLandmarks
    \/ SaveLandmarks

SpecBog == BogInit /\ [][BogNext]_vars

(***************************************************************************)
(* Properties of the Bogunovic engine.                                     *)
(***************************************************************************)
\* C1: the maxima list and the minima list are each strictly increasing and
\* share no index, after detection and after saddle suppression, for every
\* method
ExtremaListsOrderedAndDisjoint ==
    /\ IsStrictlyIncreasing(max_point_ids)
    /\ IsStrictlyIncreasing(min_point_ids)
    /\ Range(max_point_ids) \cap Range(min_point_ids) = {}

\* spline extrema of a resampled line, thinned by the saddle loop
ExtremaListsWitness ==
    /\ pc = "theta"
    /\ method = "spline"
    /\ resampling
    /\ Len(max_point_ids) >= 2
    /\ Len(min_point_ids) >= 2
    /\ \E q \in 1..(Len(max_point_ids) - 1) :
          max_point_ids[q + 1] - max_point_ids[q] > 2

\* C2: the saddle step leaves no minimum i and maximum j with |i - j| < 5
\* and |curvature[i] - curvature[j]| < 0.01
SaddlePairsAllRemoved ==
    [][pc = "saddle" =>
          \A i \in Range(min_point_ids') : \A j \in Range(max_point_ids') :
             ~IsSaddle(curvature, i, j)]_vars

\* the minima between the maxima i and i + 1
MinimaBetween(i) ==
    {m \in Range(min_point_ids) :
        At(max_point_ids, i) < m /\ m < At(max_point_ids, i + 1)}

\* the scans of a run in terms of theta: backwards from index for the first
\* theta > 60, from there for the first theta > 45, from there for the first
\* theta > 110, and forwards from index for the first theta > 45
AntPostAt == SetMax({i \in 0..(index - 1) : At(theta, i) > 60})

PostInfAt == SetMax({i \in 0..(AntPostAt - 1) : At(theta, i) > 45})

InfEndCrossings == {i \in 0..(PostInfAt - 1) : At(theta, i) > 110}

SupAntAt == SetMin({i \in index..(Len(theta) - 1) : At(theta, i) > 45})

\* C3: a successful run has exactly the interfaces ant_post, post_inf,
\* inf_end and sup_ant, each the minimum before the maximum that follows the
\* first crossing of its scan; inf_end is 0 when its scan has no crossing,
\* and the run goes on to sup_ant
FourInterfacesOnSuccess ==
    pc \in {"landmarks", "save", "done"} =>
       /\ DictKeys(interfaces) = <<"ant_post", "post_inf", "inf_end", "sup_ant">>
       /\ DictGet(interfaces, "ant_post") = SetMax(MinimaBetween(AntPostAt))
       /\ DictGet(interfaces, "post_inf") = SetMax(MinimaBetween(PostInfAt))
       /\ DictGet(interfaces, "inf_end") =
             IF InfEndCrossings = {} THEN 0
             ELSE SetMax(MinimaBetween(SetMax(InfEndCrossings)))
       /\ DictGet(interfaces, "sup_ant") = SetMax(MinimaBetween(SupAntAt))

\* a finished run whose inferior->end scan found a crossing after choosing
\* among several ant_post crossings
FourInterfacesWitness ==
    /\ pc = "done"
    /\ InfEndCrossings # {}
    /\ Cardinality({i \in 0..(index - 1) : At(theta, i) > 60}) >= 2

\* a finished run whose inferior->end scan found no crossing
InfEndFallbackWitness ==
    /\ pc = "done"
    /\ InfEndCrossings = {}
    /\ PostInfAt >= 1
    /\ DictGet(interfaces, "inf_end") = 0

\* find_interface's arguments start, direction and tol at the call for part
ScanArguments(part) ==
    CASE part = "ant_post" -> <<index, 0 - 1, tol_ant_post>>
      [] part = "post_inf" -> <<start, 0 - 1, tol_post_inf>>
      [] part = "inf_end" -> <<start, 0 - 1, tol_inf_end>>
      [] part = "sup_ant" -> <<index + 1, 1, tol_sup_ant>>

\* C14: whenever a scan of find_interface finds a turning angle above its
\* tolerance, a curvature minimum lies strictly between the maxima i and
\* i + 1 of the first such position i in scan order, for every extrema
\* configuration that reaches the call
CrossingHasMinimumBetween ==
    pc \in {"ant_post", "post_inf", "inf_end", "sup_ant"} =>
        LET a == ScanArguments(pc)
        IN  Crossings(theta, a[1], a[2], a[3]) # {} =>
               MinimaBetween(FirstCrossing(theta, a[1], a[2], a[3])) # {}

\* C4: after a fatal failure nothing is written or exported: output implies,
\* in Bogunovic, a coronal extremum that passed the sanity check and the
\* three required crossings and, in Kjeldsberg, that the rules after the
\* sanity check of find_c4_c5_interface have run
NoOutputAfterFatalFailure ==
    /\ pc \in {"exit", "returned_none"} => ~exported /\ written = <<>>
    /\ (algorithm = "bogunovic" /\ (exported \/ written # <<>>)) =>
          /\ max_coronal_coordinate_id # None
          /\ DictHas(interfaces, "ant_post")
          /\ DictHas(interfaces, "post_inf")
          /\ DictHas(interfaces, "sup_ant")
    /\ (algorithm = "kjeldsberg" /\ (exported \/ written # <<>>)) =>
          /\ kj.c3_c4 # None
          /\ DictHas(interfaces, "C5")

\* the sup_ant crossing is missing after three interfaces were computed
FatalAfterInterfacesWitness ==
    /\ pc = "returned_none"
    /\ Len(interfaces) = 3
    /\ ~exported

\* C9: every landmark handed to the exporter is a point of the centerline as
\* it was passed into the engine, before resampling
LandmarksOnInputCenterline ==
    pc \in {"save", "done"} =>
       \A q \in 1..Len(landmarks) : landmarks[q][2] \in Range(InputCenterline)

(***************************************************************************)
(* Piccinelli rule engine.                                                 *)
(***************************************************************************)
EndpointMargin == 10
PeakTolerance == 70

Max2(a, b) == IF a > b THEN a ELSE b

\* indices of curvature peaks of a profile over n points: two at the start,
\* one at the end, the others apart by more and by less than the tolerance
CurvCandidates(n) == {3, 7, 50, 90, 115, 150, 250, n - 5}

\* indices of torsion peaks of a profile
TorCandidates == {20, 60, 100, 200, 300}

\* the value of a profile at its peak of index p
PeakHeight(p) == 2 + ((p \div 30) % 3)

\* a profile with a peak at every index of peaks and a dip two samples after it
PeakProfile(n, peaks) ==
    [q \in 1..n |-> IF q - 1 \in peaks THEN PeakHeight(q - 1)
                    ELSE IF q - 3 \in peaks THEN 0
                    ELSE 1]

\* the torsion peaks that are negative in a profile with negative peaks
NegativePeaks == {60, 100, 300}

\* the same with the sign of the peaks of NegativePeaks turned when negated
SignedProfile(n, peaks, negated) ==
    [q \in 1..n |->
        IF negated /\ q - 1 \in peaks /\ q - 1 \in NegativePeaks
        THEN 0 - PeakHeight(q - 1)
        ELSE PeakProfile(n, peaks)[q]]

\* abs(torsion_smooth)
AbsArray(a) == [q \in 1..Len(a) |-> Abs(a[q])]

\* <<n, torsion_smooth, list(argrelextrema(abs(torsion_smooth), np.greater)[0])>>
\* for the smoothed torsion profiles of the lines of n points
TorsionFeatures ==
    {<<Len(ln), SignedProfile(Len(ln), peaks, negated),
       ArgRelExtrema(AbsArray(SignedProfile(Len(ln), peaks, negated)), "greater")>> :
        ln \in {LongCenterline, Resample(LongCenterline, ResampleStep)},
        peaks \in SUBSET TorCandidates, negated \in BOOLEAN}

\* for i in max_point_ids: if length[i] in length[-10:] or length[i] in
\* length[:10]: max_point_ids.remove(i), from iterator position iq on
RECURSIVE RemoveEndpointMaxima(_, _, _)
RemoveEndpointMaxima(maxs, iq, length) ==
    LET n == Len(length)
        head == {length[q] : q \in 1..Min2(EndpointMargin, n)}
        tail == {length[q] : q \in Max2(1, n - EndpointMargin + 1)..n}
    IN  IF iq > Len(maxs) THEN maxs
        ELSE IF At(length, maxs[iq]) \in tail \/ At(length, maxs[iq]) \in head
        THEN RemoveEndpointMaxima(ListRemove(maxs, maxs[iq]), iq + 1, length)
        ELSE RemoveEndpointMaxima(maxs, iq + 1, length)

\* curv_remove_ids / tor_remove_ids: of two neighbours closer than the
\* tolerance, the second when the value at the first is greater, else the first
RemoveIds(ids, values) ==
    {IF At(values, ids[q]) > At(values, ids[q + 1]) THEN ids[q + 1] ELSE ids[q] :
        q \in {r \in 1..(Len(ids) - 1) : ids[r + 1] - ids[r] < PeakTolerance}}

\* [ID for ID in ids if ID not in remove_ids]
RECURSIVE FilterOut(_, _)
FilterOut(ids, remove_ids) ==
    IF ids = <<>> THEN <<>>
    ELSE IF Head(ids) \in remove_ids THEN FilterOut(Tail(ids), remove_ids)
    ELSE <<Head(ids)>> \o FilterOut(Tail(ids), remove_ids)

\* the inner loop of find_interface with the resume position taken at the
\* bracketing pair itself
RECURSIVE BracketScanResumeAtPair(_, _, _, _)
BracketScanResumeAtPair(c, i, tors, st) ==
    IF i > Len(tors) - 2 THEN st
    ELSE IF At(tors, i) < c /\ c < At(tors, i + 1) /\ ~st.found
    THEN BracketScanResumeAtPair(c, i + 1, tors,
            [interface |-> DictSet(DictSet(st.interface, BendKey(st.k + 1),
                                           At(tors, i)),
                                   BendKey(st.k + 2), At(tors, i + 1)),
             k |-> st.k + 2, start_id |-> i, found |-> TRUE])
    ELSE BracketScanResumeAtPair(c, i + 1, tors, st)

\* for i in range(start_id, len(max_point_tor_ids) - 1): ..., from i on, for
\* the curvature maximum c; st holds interface, k, start_id and found
RECURSIVE BracketScan(_, _, _, _)
BracketScan(c, i, tors, st) ==
    IF i > Len(tors) - 2 THEN st
    ELSE IF At(tors, i) < c /\ c < At(tors, i + 1) /\ ~st.found
    THEN BracketScan(c, i + 1, tors,
            [interface |-> DictSet(DictSet(st.interface, BendKey(st.k + 1),
                                           At(tors, i)),
                                   BendKey(st.k + 2), At(tors, i + 1)),
             k |-> st.k + 2, start_id |-> i + 1, found |-> TRUE])
    ELSE BracketScan(c, i + 1, tors, st)

\* the outer loop of find_interface without the reset of found
RECURSIVE BendScanFoundKept(_, _, _, _)
BendScanFoundKept(cq, maxs, tors, st) ==
    IF cq > Len(maxs) THEN st.interface
    ELSE BendScanFoundKept(cq + 1, maxs, tors,
                           BracketScan(maxs[cq], st.start_id, tors, st))

\* for c in max_point_ids: ...; found = False, from list position cq on
RECURSIVE BendScan(_, _, _, _)
BendScan(cq, maxs, tors, st) ==
    IF cq > Len(maxs) THEN st.interface
    ELSE LET r == BracketScan(maxs[cq], st.start_id, tors, st)
         IN  BendScan(cq + 1, maxs, tors, [r EXCEPT !.found = FALSE])

\* find_interface() of landmarking_piccinelli
PicFindInterface(maxs, tors) ==
    BendScan(1, maxs, tors,
             [interface |-> <<>>, k |-> 0, start_id |-> 0, found |-> FALSE])

\* the approximation methods landmarking_piccinelli has a branch for
PicMethods == {"spline", "vmtk"}

PicInit == EngineInit("piccinelli", RequestedMethods, LongCenterline)

\* the line with its curvature and the curvature peaks
PicAttributes ==
    /\ pc = "attributes"
    /\ algorithm = "piccinelli"
    /\ method \in PicMethods
    /\ \E peaks \in SUBSET CurvCandidates(Len(centerline)) :
          LET sig == PeakProfile(Len(centerline), peaks)
          IN  /\ line' = IF method = "spline"
                         THEN SplineFit(centerline, SplineDev)
                         ELSE centerline
              /\ curvature' = sig
              /\ max_point_ids' = IF method = "spline"
                                  THEN SplineExtrema(line', sig)[1]
                                  ELSE ArgRelExtrema(sig, "greater")
    /\ pc' = "endpoints"
    /\ UNCHANGED <<algorithm, method, resampling, centerline, min_point_ids,
                   max_point_tor_ids, theta, max_coronal_coordinate_id, index,
                   start, interfaces, landmarks, written, exported, kj,
                   coronal_coordinate, torsion_smooth>>

\* else: raise ValueError("ERROR: Selected method ... not available")
PicRejectMethod ==
    /\ pc = "attributes"
    /\ algorithm = "piccinelli"
    /\ method \notin PicMethods
    /\ pc' = "value_error"
    /\ UNCHANGED <<algorithm, method, resampling, centerline, line, curvature,
                   max_point_ids, min_point_ids, max_point_tor_ids, theta,
                   max_coronal_coordinate_id, index, start, interfaces,
                   landmarks, written, exported, kj,
                   coronal_coordinate, torsion_smooth>>

\* remove points too close to the ends of the siphon
PicEndpoints ==
    /\ pc = "endpoints"
    /\ max_point_ids' = RemoveEndpointMaxima(max_point_ids, 1,
                                             CurvilinearCoordinate(line))
    /\ pc' = "collapse"
    /\ UNCHANGED <<algorithm, method, resampling, centerline, line, curvature,
                   min_point_ids, max_point_tor_ids, theta,
                   max_coronal_coordinate_id, index, start, interfaces,
                   landmarks, written, exported, kj,
                   coronal_coordinate, torsion_smooth>>

\* remove curvature peaks too close to each other; the curvature is not
\* read afterwards
PicCollapseCurvature ==
    /\ pc = "collapse"
    /\ max_point_ids' = FilterOut(max_point_ids,
                                  RemoveIds(max_point_ids, curvature))
    /\ curvature' = <<>>
    /\ pc' = "collapse_torsion"
    /\ UNCHANGED <<algorithm, method, resampling, centerline, line,
                   min_point_ids, max_point_tor_ids, theta,
                   max_coronal_coordinate_id, index, start, interfaces,
                   landmarks, written, exported, kj,
                   coronal_coordinate, torsion_smooth>>

\* the smoothed torsion and the peaks of its magnitude, which the collapse
\* step is the first to read
PicTorsion ==
    /\ pc = "collapse_torsion"
    /\ \E f \in TorsionFeatures :
          /\ f[1] = Len(line)
          /\ torsion_smooth' = f[2]
          /\ max_point_tor_ids' = f[3]
    /\ pc' = "collapse_torsion_peaks"
    /\ UNCHANGED <<algorithm, method, resampling, centerline, line, curvature,
                   max_point_ids, min_point_ids, theta,
                   max_coronal_coordinate_id, index, start, interfaces,
                   landmarks, written, exported, kj,
                   coronal_coordinate>>

\* remove torsion peaks too close to each other; the smoothed torsion is not
\* read afterwards
PicCollapseTorsion ==
    /\ pc = "collapse_torsion_peaks"
    /\ max_point_tor_ids' = FilterOut(max_point_tor_ids,
                                      RemoveIds(max_point_tor_ids,
                                                torsion_smooth))
    /\ torsion_smooth' = <<>>
    /\ pc' = "find_interface"
    /\ UNCHANGED <<algorithm, method, resampling, centerline, line, curvature,
                   max_point_ids, min_point_ids, theta,
                   max_coronal_coordinate_id, index, start, interfaces,
                   landmarks, written, exported, kj,
                   coronal_coordinate>>

\* interfaces = find_interface()
PicInterfaces ==
    /\ pc = "find_interface"
    /\ interfaces' = PicFindInterface(max_point_ids, max_point_tor_ids)
    /\ pc' = "landmarks"
    /\ UNCHANGED <<algorithm, method, resampling, centerline, line, curvature,
                   max_point_ids, min_point_ids, max_point_tor_ids, theta,
                   max_coronal_coordinate_id, index, start, landmarks,
                   written, exported, kj,
                   coronal_coordinate, torsion_smooth>>

PicNext ==
    \/ ResampleCenterline
    \/ PicAttributes
    \/ PicRejectMethod
    \/ PicEndpoints
    \/ PicCollapseCurvature
    \/ PicTorsion
    \/ PicCollapseTorsion
    \/ PicInterfaces
    \/ SetAndMapLandmarks
    \/ SaveLandmarks

SpecPic == PicInit /\ [][PicNext]_vars

(***************************************************************************)
(* Properties of the Piccinelli engine.                                    *)
(***************************************************************************)
\* the lists of the end-to-end example
ExampleLists ==
    /\ max_point_ids = <<50, 150, 250>>
    /\ max_point_tor_ids = <<20, 100, 200, 300>>

\* C5: curvature maxima [50, 150, 250] and torsion maxima [20, 100, 200, 300]
\* yield exactly bend1 at index 100 and bend2 at index 200
ExampleYieldsTwoBends ==
    (pc \in {"save", "done"} /\ ExampleLists) =>
       landmarks = << <<"bend1", At(centerline, 100)>>,
                      <<"bend2", At(centerline, 200)>> >>

\* C5 as amended: with method vmtk the example yields exactly bend1..bend4
\* at the indices 20, 100, 200 and 300
ExampleYieldsFourBends ==
    (pc \in {"save", "done"} /\ ExampleLists /\ method = "vmtk") =>
       landmarks = << <<"bend1", At(centerline, 20)>>,
                      <<"bend2", At(centerline, 100)>>,
                      <<"bend3", At(centerline, 200)>>,
                      <<"bend4", At(centerline, 300)>> >>

\* the example has run to its end on a resampled vmtk line
ExampleWitness ==
    /\ pc = "done"
    /\ ExampleLists
    /\ method = "vmtk"
    /\ resampling
    /\ Len(written) = 4

\* the torsion pairs (by the position of their first member) that bracket c
BracketsOf(c) ==
    {i \in 0..(Len(max_point_tor_ids) - 2) :
        At(max_point_tor_ids, i) < c /\ c < At(max_point_tor_ids, i + 1)}

\* the pairs that bracket some curvature maximum, in increasing order
BracketingPairs ==
    SortedSeq(UNION {BracketsOf(max_point_ids[q]) : q \in 1..Len(max_point_ids)})

\* C6: find_interface emits each torsion pair that brackets a curvature
\* maximum once, in the order of the maxima, and nothing for a maximum no
\* pair brackets or whose pair was emitted for an earlier maximum
EachPairEmittedOnce ==
    pc = "landmarks" =>
       /\ DictKeys(interfaces) =
             [q \in 1..(2 * Len(BracketingPairs)) |-> BendKey(q)]
       /\ DictValues(interfaces) =
             [q \in 1..(2 * Len(BracketingPairs)) |->
                 IF q % 2 = 1
                 THEN At(max_point_tor_ids, BracketingPairs[(q + 1) \div 2])
                 ELSE At(max_point_tor_ids, BracketingPairs[q \div 2] + 1)]

\* a maximum without a pair comes first and two maxima share the pair that
\* is emitted afterwards
EachPairEmittedOnceWitness ==
    /\ pc = "landmarks"
    /\ Len(max_point_ids) >= 3
    /\ BracketsOf(max_point_ids[1]) = {}
    /\ BracketsOf(max_point_ids[2]) # {}
    /\ BracketsOf(max_point_ids[2]) = BracketsOf(max_point_ids[3])
    /\ Len(interfaces) = 2

(***************************************************************************)
(* The landmark mapper on its own: a set of interfaces on a line is turned *)
(* into landmarks, mapped, and mapped once more.                           *)
(***************************************************************************)
MapAlgorithms == {"bogunovic", "piccinelli", "kjeldsberg"}

BogParts == <<"ant_post", "post_inf", "inf_end", "sup_ant">>

\* the name an engine gives its q-th interface; Kjeldsberg may start at a
\* later segment than C1
InterfaceName(alg, q) ==
    CASE alg = "bogunovic" -> BogParts[q]
      [] alg = "piccinelli" -> BendKey(q)
      [] alg = "kjeldsberg" -> CKey(q + 3)

\* a line with two points around every point of the centerline
DenseLine(curve) == [q \in 1..(2 * (Len(curve) - 1)) |-> curve[1] + 2 * q - 1]

MapLines == {InputCenterline, DenseLine(InputCenterline)}

\* the interface dicts of an engine with up to MaxLandmarks entries
MapInterfaces(alg) ==
    {[q \in 1..Len(v) |-> <<InterfaceName(alg, q), v[q]>>] :
        v \in UNION {[1..m -> 0..MaxIndex] : m \in 1..MaxLandmarks}}

MapInit ==
    /\ pc = "landmarks"
    /\ algorithm \in MapAlgorithms
    /\ method = "vmtk"
    /\ resampling = FALSE
    /\ centerline = InputCenterline
    /\ line \in MapLines
    /\ curvature = <<>>
    /\ max_point_ids = <<>>
    /\ min_point_ids = <<>>
    /\ max_point_tor_ids = <<>>
    /\ theta = <<>>
    /\ max_coronal_coordinate_id = None
    /\ index = None
    /\ start = None
    /\ interfaces \in MapInterfaces(algorithm)
    /\ landmarks = <<>>
    /\ written = <<>>
    /\ exported = FALSE
    /\ kj = None
    /\ coronal_coordinate = <<>>
    /\ torsion_smooth = <<>>

\* map_landmarks applied to the landmarks it returned
RemapLandmarks ==
    /\ pc = "save"
    /\ landmarks' = MapLandmarks(landmarks, centerline, algorithm)
    /\ pc' = "remapped"
    /\ UNCHANGED <<algorithm, method, resampling, centerline, line, curvature,
                   max_point_ids, min_point_ids, max_point_tor_ids, theta,
                   max_coronal_coordinate_id, index, start, interfaces,
                   written, exported, kj,
                   coronal_coordinate, torsion_smooth>>

MapNext ==
    \/ SetAndMapLandmarks
    \/ RemapLandmarks

SpecMap == MapInit /\ [][MapNext]_vars

\* the centerline index nearest to the q-th landmark before mapping
NearestId(q) == FindClosestPoint(centerline, At(line, interfaces[q][2]))

\* the landmarks whose nearest index no earlier landmark has, in order
FirstOccurrences ==
    SortedSeq({q \in 1..Len(interfaces) :
                 \A r \in 1..(q - 1) : NearestId(r) # NearestId(q)})

\* C7: for piccinelli and kjeldsberg the mapped set holds, for each nearest
\* index in the order of its first occurrence, one landmark, named
\* bend1..bendk or C1..Ck without a gap; later landmarks of the same index
\* are dropped
MapperDropsDuplicatesAndRenumbers ==
    (pc = "save" /\ algorithm \in {"piccinelli", "kjeldsberg"}) =>
       landmarks =
          [j \in 1..Len(FirstOccurrences) |->
              << IF algorithm = "kjeldsberg" THEN CKey(j) ELSE BendKey(j),
                 At(centerline, NearestId(FirstOccurrences[j])) >>]

\* a Kjeldsberg set whose second landmark has the nearest index of the first
\* and whose third is kept
MapperDropsDuplicatesWitness ==
    /\ pc = "save"
    /\ algorithm = "kjeldsberg"
    /\ Len(interfaces) = 3
    /\ interfaces[1][2] # interfaces[2][2]
    /\ NearestId(1) = NearestId(2)
    /\ NearestId(3) # NearestId(1)
    /\ Len(landmarks) = 2

\* C8: mapping a mapped set again changes neither its names nor its points
\* nor its order
MapperIdempotent ==
    [][pc = "save" /\ pc' = "remapped" => landmarks' = landmarks]_vars

\* a set that lost a duplicate in the first mapping has been mapped again
MapperIdempotentWitness ==
    /\ pc = "remapped"
    /\ algorithm = "piccinelli"
    /\ Len(interfaces) = 3
    /\ Len(landmarks) = 2
    /\ NearestId(1) = NearestId(2)


(***************************************************************************)
(* Kjeldsberg rule engine: inputs and interface rules.                     *)
(***************************************************************************)
\* the centerline handed to the Kjeldsberg engine
KjCenterline == [q \in 1..KjNumPoints |-> (q - 1) * InputSpacing]

\* the locals of landmarking_kjeldsberg
KjLocals ==
    [tangent |-> <<>>, manual |-> FALSE,
     classify_with_diverging_arteries |-> FALSE,
     ophthalmic_id |-> None, p_com_a_id |-> None,
     c1_c2 |-> None, c2_c3 |-> None, c3_c4 |-> None, c4_c5 |-> None,
     c5_c6 |-> None, c6_c7 |-> None, start |-> None,
     short_model |-> FALSE, very_short_model |-> FALSE,
     first |-> TRUE, picked_ophthalmic |-> None, picked_p_com |-> None,
     shown_ophthalmic |-> 0, shown_p_com |-> 0,
     try_again_ophthalmic |-> 0, try_again_p_com |-> 0]

\* index of the k-th of five curvature peaks below the anterior bend
KjPeak(n, k) == k * (n \div 10)

\* index of the curvature dip that follows the k-th peak
KjDip(n, k) == KjPeak(n, k) + (n \div 20)

\* percentages of the length where a curvature peak above the anterior bend
\* may lie; 0 for no such peak
UpperPeakPercents == {0, 86, 93}

\* smoothed curvature over n points: the last m of the five lower peaks, the
\* dips between them but for the one after peak `missing`, and the upper
\* peak at `upper` percent of the length
KjCurvature(n, m, missing, upper) ==
    LET peaks == {KjPeak(n, k) : k \in (6 - m)..5} \cup
                 (IF upper # 0 THEN {(upper * n) \div 100} ELSE {})
        dips == {KjDip(n, k) : k \in ((6 - m)..4) \ {missing}}
    IN  [q \in 1..n |-> IF q - 1 \in peaks THEN 2
                        ELSE IF q - 1 \in dips THEN 0
                        ELSE 1]

\* the same with a dip ahead of the first of the m lower peaks and, when
\* `early`, one more peak at index 1
KjLeadCurvature(n, m, early) ==
    [q \in 1..n |-> IF early /\ q - 1 = 1 THEN 2
                    ELSE IF q - 1 = KjDip(n, 5 - m) THEN 0
                    ELSE KjCurvature(n, m, 0, 93)[q]]

\* all five lower peaks and two peaks above the anterior bend
KjTwoUpperPeaks(n) ==
    [q \in 1..n |-> IF q - 1 = (93 * n) \div 100 THEN 2
                    ELSE KjCurvature(n, 5, 0, 86)[q]]

KjCurvatureProfiles(n) ==
    {KjCurvature(n, m, 0, upper) : m \in 0..5, upper \in UpperPeakPercents} \cup
    {KjCurvature(n, 5, missing, 93) : missing \in 1..3} \cup
    {KjLeadCurvature(n, m, early) : m \in 2..3, early \in BOOLEAN} \cup
    {KjTwoUpperPeaks(n)}

\* degrees the tangent of a planar curve turns per index
TangentRates == {0, 3, 6}

\* a tangent that turns by 60 degrees at index 3 and by 40 more above the
\* anterior bend
KinkedTangent(n) ==
    [q \in 1..n |-> IF q - 1 < 3 THEN 0
                    ELSE IF q - 1 < (3 * n) \div 4 THEN 60
                    ELSE 100]

\* FrenetTangent of a planar curve, as the direction angle in degrees
TangentProfiles(n) ==
    {[q \in 1..n |-> rate * (q - 1)] : rate \in TangentRates} \cup
    {KinkedTangent(n)}

\* arccos(abs(dot(t_i, t_j)) / (norm(t_i) * norm(t_j))) * 180 / pi
Alpha(tangent, i, j) ==
    LET r == Abs(At(tangent, i) - At(tangent, j)) % 180
    IN  IF r > 90 THEN 180 - r ELSE r

\* coronal profiles of the Kjeldsberg line: the lowest and the highest sample
\* near the start, or at an anterior bend at 4/10 or 7/10 of the line
KjCoronalPositions(n) == {2, 5, (4 * n) \div 10, (7 * n) \div 10}

KjCoronalSignals(n) ==
    {[q \in 1..n |-> IF q - 1 = lo THEN 0 ELSE IF q - 1 = hi THEN 2 ELSE 1] :
        <<lo, hi>> \in {w \in KjCoronalPositions(n) \X KjCoronalPositions(n) :
                          w[1] # w[2]}}

\* centerline_diverging[-1]: the ids where side branches leave the line
DivergingIds(n) ==
    {<<>>, <<(85 * n) \div 100, (n \div 10) + 1>>, <<(85 * n) \div 100, 3>>}

\* get_diverging_point_id of the line picked for the ophthalmic artery
OphthalmicDivIds(n) == {0, (85 * n) \div 100}

\* get_diverging_point_id of the line picked for the posterior
\* communicating artery
PComDivIds(n) == {(n \div 10) + 1}

\* find_c4_c5_interface without the test of the maximum it falls back to
FindC4C5InterfaceUnchecked(length, z) ==
    LET far(id) == 4 * Abs(At(length, id) - Last(length)) > 3 * Last(length)
    IN  IF ~far(CoronalMinimumId(z)) THEN CoronalMinimumId(z)
        ELSE CoronalMaximumId(z)

\* find_c4_c5_interface: the index, or None for sys.exit(1)
FindC4C5Interface(length, z) ==
    LET far(id) == 4 * Abs(At(length, id) - Last(length)) > 3 * Last(length)
        id0 == CoronalMinimumId(z)
        id1 == CoronalMaximumId(z)
    IN  IF ~far(id0) THEN id0
        ELSE IF ~far(id1) THEN id1
        ELSE None

\* (ids < v).nonzero()[0]
IdsBelow(ids, v) == {q \in 0..(Len(ids) - 1) : At(ids, q) < v}

\* (ids > v).nonzero()[0]
IdsAbove(ids, v) == {q \in 0..(Len(ids) - 1) : At(ids, q) > v}

\* ((min_point_ids > start) * (min_point_ids < stop)).nonzero()[0]
IdsBetween(ids, a, b) == {q \in 0..(Len(ids) - 1) : At(ids, q) > a /\ At(ids, q) < b}

\* find_c3_c4_interface without the window that opens at index 0: a single
\* maximum before the anterior-bend peak gives the very-short model
FindC3C4InterfaceTwoMaxima(c4_c5, maxs, mins) ==
    LET below == IdsBelow(maxs, c4_c5)
        fail == [raised |-> TRUE, c3_c4 |-> None, start |-> None,
                 very_short_model |-> FALSE]
    IN  IF below = {} THEN fail
        ELSE
          LET anterior_bend_peak_id == At(maxs, SetMax(below))
              region_points == IdsBelow(maxs, anterior_bend_peak_id)
              n == Cardinality(region_points)
              strt == IF n > 1 THEN At(maxs, SetMax(region_points) - 1) ELSE 0
              stop == At(maxs, SetMax(region_points))
              c3_c4_index == IdsBetween(mins, strt, stop)
          IN  IF n < 2
              THEN [raised |-> FALSE, c3_c4 |-> 0, start |-> 0,
                    very_short_model |-> TRUE]
              ELSE IF c3_c4_index # {}
              THEN [raised |-> FALSE, c3_c4 |-> At(mins, SetMin(c3_c4_index)),
                    start |-> strt, very_short_model |-> FALSE]
              ELSE [raised |-> FALSE, c3_c4 |-> 0, start |-> strt,
                    very_short_model |-> TRUE]

\* find_c3_c4_interface; max() of an empty index array raises
FindC3C4Interface(c4_c5, maxs, mins) ==
    LET below == IdsBelow(maxs, c4_c5)
        fail == [raised |-> TRUE, c3_c4 |-> None, start |-> None,
                 very_short_model |-> FALSE]
    IN  IF below = {} THEN fail
        ELSE
          LET anterior_bend_peak_id == At(maxs, SetMax(below))
              region_points == IdsBelow(maxs, anterior_bend_peak_id)
              n == Cardinality(region_points)
              strt == IF n > 1 THEN At(maxs, SetMax(region_points) - 1) ELSE 0
              stop == At(maxs, SetMax(region_points))
              c3_c4_index == IdsBetween(mins, strt, stop)
          IN  IF n = 0
              THEN [raised |-> FALSE, c3_c4 |-> 0, start |-> 0,
                    very_short_model |-> TRUE]
              ELSE IF c3_c4_index # {}
              THEN [raised |-> FALSE, c3_c4 |-> At(mins, SetMin(c3_c4_index)),
                    start |-> strt, very_short_model |-> FALSE]
              ELSE [raised |-> FALSE, c3_c4 |-> 0, start |-> strt,
                    very_short_model |-> TRUE]

\* find_c2_c3_interface, called when the model is not very short; the first
\* element of an empty index array raises
FindC2C3Interface(maxs, mins, strt) ==
    LET stop == strt
        below == IdsBelow(maxs, stop)
    IN  IF below # {}
        THEN LET s2 == At(maxs, SetMax(below))
                 c2_c3_index == IdsBetween(mins, s2, stop)
             IN  IF c2_c3_index = {}
                 THEN [raised |-> TRUE, c2_c3 |-> None, short_model |-> FALSE,
                       start |-> s2]
                 ELSE [raised |-> FALSE,
                       c2_c3 |-> At(mins, SetMin(c2_c3_index)),
                       short_model |-> FALSE, start |-> s2]
        ELSE [raised |-> FALSE, c2_c3 |-> 0, short_model |-> TRUE,
              start |-> strt]

\* find_c1_c2_interface: the index, or None when it raises
FindC1C2Interface(maxs, mins, strt) ==
    LET stop == strt
        start_ids == IdsBelow(maxs, stop)
    IN  IF start_ids # {}
        THEN LET s2 == At(maxs, SetMax(start_ids))
                 c1_c2_index == IdsBetween(mins, s2, stop)
             IN  IF c1_c2_index = {} THEN None
                 ELSE At(mins, SetMin(c1_c2_index))
        ELSE 0

\* max_point_ids[(max_point_ids > c).nonzero()[0][0]], or None when it raises
ClosestMaxAbove(maxs, c) ==
    IF IdsAbove(maxs, c) = {} THEN None
    ELSE At(maxs, SetMin(IdsAbove(maxs, c)))

\* find_c6_c7_interface
FindC6C7Interface(c5_c6, maxs, length) ==
    LET c6_c7_curvature_index == IdsAbove(maxs, c5_c6)
    IN  IF c6_c7_curvature_index # {}
        THEN At(maxs, SetMax(c6_c7_curvature_index))
        ELSE (Len(length) + c5_c6) \div 2

\* check_for_diverging_centerlines
CheckForDivergingCenterlines(ids, ln) ==
    IF Len(ids) >= 2
    THEN LET diverging_ids == SortedSeq(Range(ids))
         IN  [classify |-> TRUE,
              ophthalmic_id |-> FindClosestPoint(ln, At(ln, diverging_ids[1])),
              p_com_a_id |-> FindClosestPoint(ln, At(ln, diverging_ids[2]))]
    ELSE [classify |-> FALSE, ophthalmic_id |-> None, p_com_a_id |-> None]

\* mark_diverging_arteries, given the ids of the picked points:
\* True if ophthalmic_div_id or p_com_div_id is not None else False
MarkDivergingArteries(sel) ==
    [classify |-> (sel[1] # None /\ sel[1] # 0) \/ sel[2] # None,
     ophthalmic_id |-> sel[1], p_com_a_id |-> sel[2]]

\* the interfaces dict with C1 added when C1-C2 is index 0
KjInterfacesC1AtZero(k) ==
    LET tail == <<<<"C4", k.c3_c4>>, <<"C5", k.c4_c5>>, <<"C6", k.c5_c6>>,
                  <<"C7", k.c6_c7>>>>
    IN  IF k.very_short_model THEN tail
        ELSE IF k.short_model THEN <<<<"C3", k.c2_c3>>>> \o tail
        ELSE IF k.c1_c2 # 0
        THEN <<<<"C2", k.c1_c2>>, <<"C3", k.c2_c3>>>> \o tail
        ELSE <<<<"C1", 0>>, <<"C2", k.c1_c2>>, <<"C3", k.c2_c3>>>> \o tail

\* the interfaces dict of landmarking_kjeldsberg
KjInterfaces(k) ==
    LET tail == <<<<"C4", k.c3_c4>>, <<"C5", k.c4_c5>>, <<"C6", k.c5_c6>>,
                  <<"C7", k.c6_c7>>>>
    IN  IF k.very_short_model THEN tail
        ELSE IF k.short_model THEN <<<<"C3", k.c2_c3>>>> \o tail
        ELSE IF k.c1_c2 = 0
        THEN <<<<"C2", k.c1_c2>>, <<"C3", k.c2_c3>>>> \o tail
        ELSE <<<<"C1", 0>>, <<"C2", k.c1_c2>>, <<"C3", k.c2_c3>>>> \o tail

(***************************************************************************)
(* Kjeldsberg rule engine: the run of landmarking_kjeldsberg.              *)
(***************************************************************************)
KjInit ==
    /\ pc = "start"
    /\ algorithm = "kjeldsberg"
    /\ method = "vmtk"
    /\ resampling \in BOOLEAN
    /\ centerline = KjCenterline
    /\ line = <<>>
    /\ curvature = <<>>
    /\ max_point_ids = <<>>
    /\ min_point_ids = <<>>
    /\ max_point_tor_ids = <<>>
    /\ theta = <<>>
    /\ max_coronal_coordinate_id = None
    /\ index = None
    /\ start = None
    /\ interfaces = <<>>
    /\ landmarks = <<>>
    /\ written = <<>>
    /\ exported = FALSE
    /\ kj \in {[KjLocals EXCEPT !.manual = b] : b \in BOOLEAN}
    /\ coronal_coordinate = <<>>
    /\ torsion_smooth = <<>>

\* what no step of the Kjeldsberg rules changes
KjFrame ==
    UNCHANGED <<algorithm, method, resampling, centerline, max_point_tor_ids,
                theta, max_coronal_coordinate_id, index, start, landmarks,
                written, exported, coronal_coordinate, torsion_smooth>>

\* the line, its smoothed curvature and its tangent
KjAttributes ==
    /\ pc = "attributes"
    /\ algorithm = "kjeldsberg"
    /\ line' = centerline
    /\ \E c \in KjCurvatureProfiles(Len(centerline)) : curvature' = c
    /\ \E t \in TangentProfiles(Len(centerline)) :
          kj' = [kj EXCEPT !.tangent = t]
    /\ pc' = "diverging"
    /\ UNCHANGED <<max_point_ids, min_point_ids, interfaces>>
    /\ KjFrame

\* check_for_diverging_centerlines, when the arteries are not marked by hand
KjDivergingArteries ==
    /\ pc = "diverging"
    /\ ~kj.manual
    /\ \E ids \in DivergingIds(Len(line)) :
          LET r == CheckForDivergingCenterlines(ids, line)
          IN  kj' = [kj EXCEPT !.classify_with_diverging_arteries = r.classify,
                               !.ophthalmic_id = r.ophthalmic_id,
                               !.p_com_a_id = r.p_com_a_id]
    /\ pc' = "c4_c5"
    /\ UNCHANGED <<line, curvature, max_point_ids, min_point_ids, interfaces>>
    /\ KjFrame

\* the first prompt of mark_diverging_arteries without its loop
KjPromptOphthalmicOnce ==
    /\ pc = "diverging"
    /\ kj.manual
    /\ \E n \in 0..MaxPicked :
          /\ kj' = [kj EXCEPT
                      !.shown_ophthalmic = @ + 1,
                      !.picked_ophthalmic = n,
                      !.first = TRUE]
          /\ pc' = "prompt_p_com"
    /\ UNCHANGED <<line, curvature, max_point_ids, min_point_ids, interfaces>>
    /\ KjFrame

\* one pass of the first loop of mark_diverging_arteries: the message when
\* it is not the first pass, the prompt, and the test of what was picked
KjPromptOphthalmic ==
    /\ pc = "diverging"
    /\ kj.manual
    /\ \E n \in 0..MaxPicked :
          /\ n \in {0, 1} \/ kj.shown_ophthalmic + 1 < MaxAttempts
          /\ kj' = [kj EXCEPT
                      !.try_again_ophthalmic =
                          IF ~kj.first THEN @ + 1 ELSE @,
                      !.shown_ophthalmic = @ + 1,
                      !.picked_ophthalmic = n,
                      \* reset ahead of the second loop when this one ends
                      !.first = n \in {0, 1}]
          /\ pc' = IF n \in {0, 1} THEN "prompt_p_com" ELSE pc
    /\ UNCHANGED <<line, curvature, max_point_ids, min_point_ids, interfaces>>
    /\ KjFrame

\* one pass of the second loop of mark_diverging_arteries
KjPromptPCom ==
    /\ pc = "prompt_p_com"
    /\ \E n \in 0..MaxPicked :
          /\ n \in {0, 1} \/ kj.shown_p_com + 1 < MaxAttempts
          /\ kj' = [kj EXCEPT
                      !.try_again_p_com = IF ~kj.first THEN @ + 1 ELSE @,
                      !.shown_p_com = @ + 1,
                      !.picked_p_com = n,
                      !.first = FALSE]
          /\ pc' = IF n \in {0, 1} THEN "mark" ELSE pc
    /\ UNCHANGED <<line, curvature, max_point_ids, min_point_ids, interfaces>>
    /\ KjFrame

\* the rest of mark_diverging_arteries: the divergence index of each artery
\* of which one point was picked, and the flag
KjMarkDivergingArteries ==
    /\ pc = "mark"
    /\ \E o \in IF kj.picked_ophthalmic = 1 THEN OphthalmicDivIds(Len(line))
                 ELSE {None},
          c \in IF kj.picked_p_com = 1 THEN PComDivIds(Len(line))
                 ELSE {None} :
          LET r == MarkDivergingArteries(<<o, c>>)
          IN  kj' = [kj EXCEPT !.classify_with_diverging_arteries = r.classify,
                               !.ophthalmic_id = r.ophthalmic_id,
                               !.p_com_a_id = r.p_com_a_id,
                               !.first = TRUE,
                               !.picked_ophthalmic = None,
                               !.picked_p_com = None,
                               !.shown_ophthalmic = 0,
                               !.shown_p_com = 0,
                               !.try_again_ophthalmic = 0,
                               !.try_again_p_com = 0]
    /\ pc' = "c4_c5"
    /\ UNCHANGED <<line, curvature, max_point_ids, min_point_ids, interfaces>>
    /\ KjFrame

\* c4_c5 = find_c4_c5_interface(length, coronal_coordinates)
KjFindC4C5 ==
    /\ pc = "c4_c5"
    /\ \E z \in KjCoronalSignals(Len(line)) :
          LET id == FindC4C5Interface(CurvilinearCoordinate(line), z)
          IN  IF id = None
              THEN pc' = "exit" /\ kj' = kj
              ELSE pc' = "extrema" /\ kj' = [kj EXCEPT !.c4_c5 = id]
    /\ UNCHANGED <<line, curvature, max_point_ids, min_point_ids, interfaces>>
    /\ KjFrame

\* the strict extrema of the smoothed curvature
KjExtrema ==
    /\ pc = "extrema"
    /\ min_point_ids' = ArgRelExtrema(curvature, "less")
    /\ max_point_ids' = ArgRelExtrema(curvature, "greater")
    /\ curvature' = <<>>
    /\ pc' = "c3_c4"
    /\ UNCHANGED <<line, interfaces, kj>>
    /\ KjFrame

\* c3_c4, start, very_short_model = find_c3_c4_interface(...)
KjFindC3C4 ==
    /\ pc = "c3_c4"
    /\ LET r == FindC3C4Interface(kj.c4_c5, max_point_ids, min_point_ids)
       IN  IF r.raised
           THEN pc' = "raised" /\ kj' = kj
           ELSE /\ pc' = "c2_c3"
                /\ kj' = [kj EXCEPT !.c3_c4 = r.c3_c4, !.start = r.start,
                                    !.very_short_model = r.very_short_model]
    /\ UNCHANGED <<line, curvature, max_point_ids, min_point_ids, interfaces>>
    /\ KjFrame

\* find_c2_c3_interface unless the model is very short
KjFindC2C3 ==
    /\ pc = "c2_c3"
    /\ IF kj.very_short_model
       THEN pc' = "c5_c6" /\ kj' = [kj EXCEPT !.short_model = TRUE]
       ELSE LET r == FindC2C3Interface(max_point_ids, min_point_ids, kj.start)
            IN  IF r.raised
                THEN pc' = "raised" /\ kj' = kj
                ELSE /\ pc' = IF r.short_model THEN "c5_c6" ELSE "adjust_c2_c3"
                     /\ kj' = [kj EXCEPT !.c2_c3 = r.c2_c3, !.start = r.start,
                                         !.short_model = r.short_model]
    /\ UNCHANGED <<line, curvature, max_point_ids, min_point_ids, interfaces>>
    /\ KjFrame

alpha_tolerance_c2_c3 == 60
alpha_tolerance_c1_c2 == 60
alpha_tolerance_c5_c6 == 30

\* one test of the loop of adjust_c2_c3_interface, and its body
KjAdjustC2C3 ==
    /\ pc = "adjust_c2_c3"
    /\ IF Alpha(kj.tangent, kj.c2_c3, kj.c3_c4) < alpha_tolerance_c2_c3
       THEN pc' = pc /\ kj' = [kj EXCEPT !.c2_c3 = (kj.c2_c3 * 95) \div 100]
       ELSE pc' = "c1_c2" /\ kj' = kj
    /\ UNCHANGED <<line, curvature, max_point_ids, min_point_ids, interfaces>>
    /\ KjFrame

\* c1_c2 = find_c1_c2_interface(c1_c2, max_point_ids, min_point_ids, start)
KjFindC1C2 ==
    /\ pc = "c1_c2"
    /\ LET c == FindC1C2Interface(max_point_ids, min_point_ids, kj.start)
       IN  IF c = None
           THEN pc' = "raised" /\ kj' = kj
           ELSE pc' = "adjust_c1_c2" /\ kj' = [kj EXCEPT !.c1_c2 = c]
    /\ UNCHANGED <<line, curvature, max_point_ids, min_point_ids, interfaces>>
    /\ KjFrame

\* one test of the loop of adjust_c1_c2_interface, and its body
KjAdjustC1C2 ==
    /\ pc = "adjust_c1_c2"
    /\ IF /\ Alpha(kj.tangent, kj.c1_c2, kj.c2_c3) < alpha_tolerance_c1_c2
          /\ kj.c1_c2 > 0
       THEN pc' = pc /\ kj' = [kj EXCEPT !.c1_c2 = (kj.c1_c2 * 95) \div 100]
       ELSE pc' = "nudge" /\ kj' = kj
    /\ UNCHANGED <<line, curvature, max_point_ids, min_point_ids, interfaces>>
    /\ KjFrame

\* move C2-C3, then C1-C2, halfway to the first curvature maximum after it
KjNudge ==
    /\ pc = "nudge"
    /\ LET c2_c3_closest_max == ClosestMaxAbove(max_point_ids, kj.c2_c3)
           c1_c2_closest_max == ClosestMaxAbove(max_point_ids, kj.c1_c2)
       IN  IF c2_c3_closest_max = None \/ c1_c2_closest_max = None
           THEN pc' = "raised" /\ kj' = kj
           ELSE /\ pc' = "c5_c6"
                /\ kj' = [kj EXCEPT
                            !.c2_c3 = (kj.c2_c3 + c2_c3_closest_max) \div 2,
                            !.c1_c2 = (kj.c1_c2 + c1_c2_closest_max) \div 2]
    /\ UNCHANGED <<line, curvature, max_point_ids, min_point_ids, interfaces>>
    /\ KjFrame

\* find_c5_c6_interface up to its loop; tangent[c5_c6] raises past the end
KjFindC5C6 ==
    /\ pc = "c5_c6"
    /\ LET c == (kj.c4_c5 * 102) \div 100
       IN  IF ~IsPointId(kj.tangent, c)
           THEN pc' = "raised" /\ kj' = kj
           ELSE pc' = "c5_c6_loop" /\ kj' = [kj EXCEPT !.c5_c6 = c]
    /\ UNCHANGED <<line, curvature, max_point_ids, min_point_ids, interfaces>>
    /\ KjFrame

\* one test of the loop of find_c5_c6_interface, and its body
KjFindC5C6Loop ==
    /\ pc = "c5_c6_loop"
    /\ IF Alpha(kj.tangent, kj.c4_c5, kj.c5_c6) < alpha_tolerance_c5_c6
       THEN LET c == (kj.c5_c6 * 102) \div 100
            IN  IF ~IsPointId(kj.tangent, c)
                THEN pc' = "raised" /\ kj' = kj
                ELSE pc' = pc /\ kj' = [kj EXCEPT !.c5_c6 = c]
       ELSE pc' = "c6_c7" /\ kj' = kj
    /\ UNCHANGED <<line, curvature, max_point_ids, min_point_ids, interfaces>>
    /\ KjFrame

\* c6_c7 = find_c6_c7_interface(c5_c6, max_point_ids, length)
KjFindC6C7 ==
    /\ pc = "c6_c7"
    /\ kj' = [kj EXCEPT !.c6_c7 = FindC6C7Interface(kj.c5_c6, max_point_ids,
                                                   CurvilinearCoordinate(line))]
    /\ pc' = "adjust_c5_c6"
    /\ UNCHANGED <<line, curvature, max_point_ids, min_point_ids, interfaces>>
    /\ KjFrame

\* la.norm(length[j] - length[i])
SegmentLength(ln, i, j) ==
    Abs(At(CurvilinearCoordinate(ln), j) - At(CurvilinearCoordinate(ln), i))

\* one test of the loop of adjust_c5_c6_interface, and its body
KjAdjustC5C6 ==
    /\ pc = "adjust_c5_c6"
    /\ LET len_c6 == SegmentLength(line, kj.c5_c6, kj.c6_c7)
           len_c5 == SegmentLength(line, kj.c4_c5, kj.c5_c6)
           dx == kj.c5_c6 - kj.c4_c5
       IN  IF len_c6 * 2 < len_c5 * 3
           THEN pc' = pc /\ kj' = [kj EXCEPT !.c5_c6 = kj.c5_c6 - (dx \div 10)]
           ELSE pc' = "adjust_c6_c7" /\ kj' = kj
    /\ UNCHANGED <<line, curvature, max_point_ids, min_point_ids, interfaces>>
    /\ KjFrame

\* adjust_c6_c7_interface returning c6_c7 as it got it
KjAdjustC6C7Skipped ==
    /\ pc = "adjust_c6_c7"
    /\ pc' = "override"
    /\ UNCHANGED <<line, curvature, max_point_ids, min_point_ids, interfaces,
                   kj>>
    /\ KjFrame

\* one test of the loop of adjust_c6_c7_interface, and its body;
\* length[c6_c7] raises past the end
KjAdjustC6C7 ==
    /\ pc = "adjust_c6_c7"
    /\ LET len_c6 == SegmentLength(line, kj.c5_c6, kj.c6_c7)
           len_c7 == SegmentLength(line, kj.c6_c7, Len(line) - 1)
           dx == kj.c6_c7 - kj.c5_c6
           c == kj.c6_c7 + (dx \div 10)
       IN  IF len_c6 < len_c7
           THEN IF ~IsPointId(line, c)
                THEN pc' = "raised" /\ kj' = kj
                ELSE pc' = pc /\ kj' = [kj EXCEPT !.c6_c7 = c]
           ELSE pc' = "override" /\ kj' = kj
    /\ UNCHANGED <<line, curvature, max_point_ids, min_point_ids, interfaces>>
    /\ KjFrame

\* overwrite c5_c6 and c6_c7 with the diverging arteries, and adjust C5 if C6
\* is before C5
KjOverride ==
    /\ pc = "override"
    /\ IF kj.classify_with_diverging_arteries
       THEN LET c5_length == kj.c5_c6 - kj.c4_c5
                c5_c6 == IF kj.ophthalmic_id # None THEN kj.ophthalmic_id
                         ELSE kj.c5_c6
                c6_c7 == IF kj.p_com_a_id # None THEN kj.p_com_a_id
                         ELSE kj.c6_c7
            IN  kj' = [kj EXCEPT !.c5_c6 = c5_c6, !.c6_c7 = c6_c7,
                                 !.c4_c5 = IF c5_c6 < kj.c4_c5
                                           THEN c5_c6 - c5_length
                                           ELSE kj.c4_c5]
       ELSE kj' = kj
    /\ pc' = "interfaces"
    /\ UNCHANGED <<line, curvature, max_point_ids, min_point_ids, interfaces>>
    /\ KjFrame

\* the interfaces dict, by the length of the model
KjSetInterfaces ==
    /\ pc = "interfaces"
    /\ interfaces' = KjInterfaces(kj)
    /\ pc' = "landmarks"
    /\ UNCHANGED <<line, curvature, max_point_ids, min_point_ids, kj>>
    /\ KjFrame

KjNext ==
    \/ ResampleCenterline
    \/ KjAttributes
    \/ KjDivergingArteries
    \/ KjPromptOphthalmic
    \/ KjPromptPCom
    \/ KjMarkDivergingArteries
    \/ KjFindC4C5
    \/ KjExtrema
    \/ KjFindC3C4
    \/ KjFindC2C3
    \/ KjAdjustC2C3
    \/ KjFindC1C2
    \/ KjAdjustC1C2
    \/ KjNudge
    \/ KjFindC5C6
    \/ KjFindC5C6Loop
    \/ KjFindC6C7
    \/ KjAdjustC5C6
    \/ KjAdjustC6C7
    \/ KjOverride
    \/ KjSetInterfaces
    \/ SetAndMapLandmarks
    \/ SaveLandmarks

SpecKj == KjInit /\ [][KjNext]_vars

\* the seed selector answers a prompt with no or one point in the end, and
\* mark_diverging_arteries goes on once both prompts are answered
ValidPick ==
    /\ KjPromptOphthalmic \/ KjPromptPCom
    /\ pc' # pc

SpecKjFair ==
    /\ KjInit
    /\ [][KjNext]_vars
    /\ WF_vars(ValidPick)
    /\ WF_vars(KjMarkDivergingArteries)

(***************************************************************************)
(* The three engines together.                                             *)
(***************************************************************************)
AllInit == BogInit \/ PicInit \/ KjInit

AllNext == BogNext \/ PicNext \/ KjNext

SpecAll == AllInit /\ [][AllNext]_vars

(***************************************************************************)
(* Properties of the Kjeldsberg engine.                                    *)
(***************************************************************************)
\* C10: the interface indices a completed Kjeldsberg run emits are strictly
\* increasing in segment order C1 < C2 < ... < C7, over the segments present
KjInterfacesStrictlyIncreasing ==
    (algorithm = "kjeldsberg" /\ pc \in {"landmarks", "save", "done"}) =>
        IsStrictlyIncreasing(DictValues(interfaces))

\* C11: once adjust_c5_c6_interface and then adjust_c6_c7_interface have
\* returned, segment C6 is at least 2/3 as long as segment C5 and at least as
\* long as segment C7
KjLengthRatios ==
    pc = "override" =>
        /\ 3 * SegmentLength(line, kj.c5_c6, kj.c6_c7) >=
              2 * SegmentLength(line, kj.c4_c5, kj.c5_c6)
        /\ SegmentLength(line, kj.c5_c6, kj.c6_c7) >=
              SegmentLength(line, kj.c6_c7, Len(line) - 1)

\* both adjustments have returned and adjust_c6_c7_interface has moved c6_c7
KjLengthRatiosWitness ==
    /\ pc = "override"
    /\ kj.c6_c7 # FindC6C7Interface(kj.c5_c6, max_point_ids,
                                    CurvilinearCoordinate(line))
    /\ kj.c5_c6 > kj.c4_c5

\* the segment names of the landmark set handed to the exporter
EmittedNames == Range(DictKeys(landmarks))

\* C12: the landmark set a Kjeldsberg run hands to the exporter is named
\* exactly C4..C7 when the model is very short and exactly C3..C7 when it is
\* short but not very short
KjEmittedNamesByModelLength ==
    (algorithm = "kjeldsberg" /\ pc \in {"save", "done"}) =>
        /\ kj.very_short_model => EmittedNames = {"C4", "C5", "C6", "C7"}
        /\ (kj.short_model /\ ~kj.very_short_model) =>
              EmittedNames = {"C3", "C4", "C5", "C6", "C7"}

(***************************************************************************)
(* Properties of the engines' handling of the approximation method.        *)
(***************************************************************************)
\* the approximation methods the running engine has a branch for
SupportedMethods == IF algorithm = "bogunovic" THEN BogMethods ELSE PicMethods

\* the centerline as it was passed into the running engine
PassedCenterline ==
    IF algorithm = "bogunovic" THEN InputCenterline ELSE LongCenterline

\* C13: in Bogunovic and in Piccinelli a run with an unsupported approximation
\* method is rejected before any processing: the centerline is never
\* resampled, no attribute is computed, and the run does not end in an error
\* other than the rejection
UnsupportedMethodRejectedFirst ==
    (algorithm \in {"bogunovic", "piccinelli"} /\ method \notin SupportedMethods)
        => /\ centerline = PassedCenterline
           /\ line = <<>>
           /\ pc # "raised"

(***************************************************************************)
(* The coronal sanity checks alone, on lines of several lengths.           *)
(***************************************************************************)
\* lines shorter and longer than the input centerline
CoronalLines ==
    {[q \in 1..n |-> (q - 1) * InputSpacing] :
        n \in (NumPoints - 2)..(NumPoints + 2)}

\* coronal profiles over n points: flat but for the lowest sample at lo and
\* the highest at hi, anywhere on the line
AllCoronalSignals(n) ==
    {[q \in 1..n |-> IF q - 1 = lo THEN 0 ELSE IF q - 1 = hi THEN 2 ELSE 1] :
        <<lo, hi>> \in {w \in (0..(n - 1)) \X (0..(n - 1)) : w[1] # w[2]}}

CoronalInit ==
    /\ pc = "coronal_input"
    /\ algorithm \in {"bogunovic", "kjeldsberg"}
    /\ method = "vmtk"
    /\ resampling = FALSE
    /\ line \in CoronalLines
    /\ centerline = line
    /\ coronal_coordinate \in AllCoronalSignals(Len(line))
    /\ torsion_smooth = <<>>
    /\ curvature = <<>>
    /\ max_point_ids = <<>>
    /\ min_point_ids = <<>>
    /\ max_point_tor_ids = <<>>
    /\ theta = <<>>
    /\ max_coronal_coordinate_id = None
    /\ index = None
    /\ start = None
    /\ interfaces = <<>>
    /\ landmarks = <<>>
    /\ written = <<>>
    /\ exported = FALSE
    /\ kj = IF algorithm = "kjeldsberg" THEN KjLocals ELSE None

\* max_coronal_coordinate_id = get_maximum_coronal_coordinate(
\*     coronal_coordinate, length)
BogCoronalCheck ==
    /\ pc = "coronal_input"
    /\ algorithm = "bogunovic"
    /\ max_coronal_coordinate_id' =
          GetMaximumCoronalCoordinate(coronal_coordinate,
                                      CurvilinearCoordinate(line))
    /\ pc' = IF max_coronal_coordinate_id' = None THEN "exit"
             ELSE "coronal_done"
    /\ UNCHANGED <<algorithm, method, resampling, centerline, line, curvature,
                   max_point_ids, min_point_ids, max_point_tor_ids, theta,
                   index, start, interfaces, landmarks, written, exported, kj,
                   coronal_coordinate, torsion_smooth>>

\* c4_c5 = find_c4_c5_interface(length, coronal_coordinates)
KjCoronalCheck ==
    /\ pc = "coronal_input"
    /\ algorithm = "kjeldsberg"
    /\ kj' = [kj EXCEPT !.c4_c5 =
                 FindC4C5Interface(CurvilinearCoordinate(line),
                                   coronal_coordinate)]
    /\ pc' = IF kj'.c4_c5 = None THEN "exit" ELSE "coronal_done"
    /\ UNCHANGED <<line, curvature, max_point_ids, min_point_ids, interfaces>>
    /\ KjFrame

CoronalNext ==
    \/ BogCoronalCheck
    \/ KjCoronalCheck

SpecCoronal == CoronalInit /\ [][CoronalNext]_vars

\* the first position of the lowest, and of the highest, coronal coordinate
GlobalMinimumId == FirstIndexOf(coronal_coordinate, SetMin(Range(coronal_coordinate)))

GlobalMaximumId == FirstIndexOf(coronal_coordinate, SetMax(Range(coronal_coordinate)))

\* the arclength from the point id to the end of the line
DistanceToEnd(id) == Last(line) - At(line, id)

\* the length of the line
TotalLength == Last(line) - line[1]

\* the outcome of a coronal check that accepts an extremum when ok holds of
\* it: the lowest sample if it is accepted, else the highest if that is
\* accepted, else a fatal exit
CoronalOutcomeIs(id, okMin, okMax) ==
    IF okMin THEN pc = "coronal_done" /\ id = GlobalMinimumId
    ELSE IF okMax THEN pc = "coronal_done" /\ id = GlobalMaximumId
    ELSE pc = "exit"

\* C15 as stated: Bogunovic accepts a coronal extremum exactly when its
\* arclength distance from the curve end is at most 3/4 of the total length,
\* tries the opposite extremum under the same bound, and is fatal otherwise
BogCoronalWithinThreeQuarters ==
    (algorithm = "bogunovic" /\ pc \in {"coronal_done", "exit"}) =>
        CoronalOutcomeIs(max_coronal_coordinate_id,
            4 * DistanceToEnd(GlobalMinimumId) <= 3 * TotalLength,
            4 * DistanceToEnd(GlobalMaximumId) <= 3 * TotalLength)

\* C15: Bogunovic accepts a coronal extremum exactly when its arclength
\* distance from the curve end is at most 30 length units, whatever the
\* length of the curve, tries the opposite extremum under the same bound, and
\* is fatal otherwise
BogCoronalWithinThirtyUnits ==
    (algorithm = "bogunovic" /\ pc \in {"coronal_done", "exit"}) =>
        CoronalOutcomeIs(max_coronal_coordinate_id,
            DistanceToEnd(GlobalMinimumId) <= SanityTolerance,
            DistanceToEnd(GlobalMaximumId) <= SanityTolerance)

\* on a line longer than 40 units the lowest sample is refused though it is
\* within 3/4 of the length, and the highest one is taken
BogCoronalWitness ==
    /\ algorithm = "bogunovic"
    /\ pc = "coronal_done"
    /\ max_coronal_coordinate_id = GlobalMaximumId
    /\ DistanceToEnd(GlobalMinimumId) > SanityTolerance
    /\ 4 * DistanceToEnd(GlobalMinimumId) <= 3 * TotalLength

\* C16: find_c4_c5_interface returns an index within 3/4 of the length from
\* the curve end that is the position of the lowest coronal coordinate or,
\* only when that one fails the bound, of the highest; otherwise it aborts
KjCoronalWithinThreeQuarters ==
    (algorithm = "kjeldsberg" /\ pc \in {"coronal_done", "exit"}) =>
        \/ pc = "exit"
        \/ /\ 4 * DistanceToEnd(kj.c4_c5) <= 3 * TotalLength
           /\ \/ kj.c4_c5 = GlobalMinimumId
              \/ /\ 4 * DistanceToEnd(GlobalMinimumId) > 3 * TotalLength
                 /\ kj.c4_c5 = GlobalMaximumId

\* the lowest sample fails the bound and the highest one is returned
KjCoronalFallbackWitness ==
    /\ algorithm = "kjeldsberg"
    /\ pc = "coronal_done"
    /\ kj.c4_c5 = GlobalMaximumId
    /\ 4 * DistanceToEnd(GlobalMinimumId) > 3 * TotalLength

(***************************************************************************)
(* Properties of Piccinelli's filters.                                     *)
(***************************************************************************)
\* C17: after the endpoint filter no curvature maximum is left among the
\* first 10 or the last 10 indices of the line
NoMaximumNearEndpoints ==
    (algorithm = "piccinelli" /\ pc = "collapse") =>
        \A i \in Range(max_point_ids) :
            /\ i >= EndpointMargin
            /\ i < Len(line) - EndpointMargin

\* of each two neighbours of ids less than the tolerance apart, the one of
\* the smaller magnitude in values, if there is one
SmallerOfClosePairs(ids, values) ==
    LET close == {q \in 1..(Len(ids) - 1) : ids[q + 1] - ids[q] < PeakTolerance}
        mag(i) == Abs(At(values, i))
    IN  {ids[q] : q \in {r \in close : mag(ids[r]) < mag(ids[r + 1])}} \cup
        {ids[q + 1] : q \in {r \in close : mag(ids[r + 1]) < mag(ids[r])}}

\* C18: the collapse step removes, of every two neighbouring torsion maxima
\* less than 70 indices apart, the one with the smaller magnitude of the
\* smoothed torsion, and of every two such curvature maxima the one with the
\* smaller curvature
CollapseRemovesSmallerMagnitude ==
    [][/\ (pc = "collapse_torsion_peaks" /\ pc' = "find_interface") =>
            SmallerOfClosePairs(max_point_tor_ids, torsion_smooth) \cap
                Range(max_point_tor_ids') = {}
       /\ (pc = "collapse" /\ pc' = "collapse_torsion") =>
            SmallerOfClosePairs(max_point_ids, curvature) \cap
                Range(max_point_ids') = {}]_vars

(***************************************************************************)
(* Kjeldsberg rule engine: the C3-C4 window.                               *)
(***************************************************************************)
\* the anterior-bend peak: the last curvature maximum before C4-C5
AnteriorBendPeak == SetMax({v \in Range(max_point_ids) : v < kj.c4_c5})

\* the curvature maxima that precede the anterior-bend peak
PrecedingMaxima == {v \in Range(max_point_ids) : v < AnteriorBendPeak}

\* the curvature minima strictly between a and b
MinimaInside(a, b) == {v \in Range(min_point_ids) : a < v /\ v < b}

\* the minima between the two maxima that precede the anterior-bend peak
MinimaOfTwoMaxWindow ==
    LET stop == SetMax(PrecedingMaxima)
    IN  MinimaInside(SetMax(PrecedingMaxima \ {stop}), stop)

\* the minima of the window the code searches: it opens at index 0 when one
\* maximum only precedes the anterior-bend peak
MinimaOfSearchedWindow ==
    IF Cardinality(PrecedingMaxima) > 1 THEN MinimaOfTwoMaxWindow
    ELSE MinimaInside(0, SetMax(PrecedingMaxima))

\* find_c3_c4_interface has returned
C3C4Returned == algorithm = "kjeldsberg" /\ pc = "c2_c3"

\* C19, as stated: C3-C4 = 0 and the very-short model are reported exactly
\* when fewer than two curvature maxima precede the anterior-bend peak or no
\* minimum lies in the window of the two preceding maxima; otherwise C3-C4
\* is the first minimum of that window.
C3C4VeryShortBelowTwoMaxima ==
    C3C4Returned =>
        IF Cardinality(PrecedingMaxima) < 2 \/ MinimaOfTwoMaxWindow = {}
        THEN kj.very_short_model /\ kj.c3_c4 = 0
        ELSE ~kj.very_short_model /\ kj.c3_c4 = SetMin(MinimaOfTwoMaxWindow)

\* C19, amended: C3-C4 = 0 and the very-short model are reported exactly
\* when no curvature maximum precedes the anterior-bend peak or no minimum
\* lies in the searched window (between the two preceding maxima, or between
\* index 0 and the single preceding maximum); otherwise C3-C4 is the first
\* minimum of the searched window.
C3C4VeryShortWithoutMinimum ==
    C3C4Returned =>
        IF PrecedingMaxima = {} \/ MinimaOfSearchedWindow = {}
        THEN kj.very_short_model /\ kj.c3_c4 = 0
        ELSE ~kj.very_short_model /\ kj.c3_c4 = SetMin(MinimaOfSearchedWindow)

\* one maximum precedes the anterior-bend peak and C3-C4 is the minimum
\* found ahead of it
C3C4SingleMaximumWitness ==
    /\ C3C4Returned
    /\ Cardinality(PrecedingMaxima) = 1
    /\ ~kj.very_short_model
    /\ kj.c3_c4 > 0
    /\ kj.c3_c4 < SetMax(PrecedingMaxima)

(***************************************************************************)
(* Kjeldsberg rule engine: segment C1 of the full model.                   *)
(***************************************************************************)
\* the interface set of the full model has been built
FullModelBuilt ==
    /\ algorithm = "kjeldsberg"
    /\ pc = "landmarks"
    /\ ~kj.very_short_model
    /\ ~kj.short_model

\* C20, as stated: in the full model C1 is in the interface set only if the
\* final C1-C2 is index 0; otherwise the set starts at C2.
C1OnlyWhenC1C2AtZero ==
    FullModelBuilt =>
        /\ DictHas(interfaces, "C1") => kj.c1_c2 = 0
        /\ kj.c1_c2 # 0 => interfaces[1][1] = "C2"

\* C20, amended: in the full model C1 is in the interface set, at index 0,
\* exactly when the final C1-C2 is not index 0; when C1-C2 is index 0 the
\* set starts at C2.
C1UnlessC1C2AtZero ==
    FullModelBuilt =>
        /\ DictHas(interfaces, "C1") <=> kj.c1_c2 # 0
        /\ kj.c1_c2 # 0 => interfaces[1] = <<"C1", 0>>
        /\ kj.c1_c2 = 0 => interfaces[1] = <<"C2", 0>>

\* a full model whose C1-C2 ended at index 0
C1C2AtZeroWitness ==
    /\ FullModelBuilt
    /\ kj.c1_c2 = 0
    /\ ~DictHas(interfaces, "C1")

(***************************************************************************)
(* Kjeldsberg rule engine: the C6-C7 interface.                            *)
(***************************************************************************)
\* the curvature maxima distal to C5-C6
DistalMaxima == {v \in Range(max_point_ids) : v > kj.c5_c6}

\* C21: find_c6_c7_interface returns the smallest curvature maximum greater
\* than c5_c6 when there is one, and otherwise the midpoint between c5_c6
\* and the end of the curve, a valid index of the curve.
C6C7NearestDistalMaximum ==
    [][(pc = "c6_c7" /\ pc' = "adjust_c5_c6") =>
          IF DistalMaxima # {}
          THEN kj'.c6_c7 = SetMin(DistalMaxima)
          ELSE /\ kj'.c6_c7 \in {(kj.c5_c6 + Len(line) - 1) \div 2,
                                  (kj.c5_c6 + Len(line)) \div 2}
               /\ kj'.c6_c7 \in 0..(Len(line) - 1)]_vars

(***************************************************************************)
(* Kjeldsberg rule engine: termination of the loops.  A loop is one action *)
(* per test of its condition, so a loop that cannot return shows as a      *)
(* state in which the only step its action allows changes nothing.         *)
(***************************************************************************)
\* C22: the bend-adjust loops terminate: while adjust_c2_c3_interface or
\* adjust_c1_c2_interface runs, its next test either returns or shrinks the
\* index, at index 0 too.
BendAdjustLoopsTerminate ==
    pc \in {"adjust_c2_c3", "adjust_c1_c2"} =>
        ENABLED <<KjAdjustC2C3 \/ KjAdjustC1C2>>_vars

\* C23: find_c5_c6_interface terminates and returns an index above c4_c5,
\* on the curve, where the tangent is at least 30 degrees off the tangent at
\* C4-C5: no test of its loop leaves the index as it was, and no tangent is
\* read past the end of the curve.
FindC5C6TerminatesInRange ==
    /\ [](pc = "c5_c6_loop" => ENABLED <<KjFindC5C6Loop>>_vars)
    /\ [](pc = "c6_c7" =>
            /\ kj.c4_c5 < kj.c5_c6
            /\ kj.c5_c6 <= Len(line) - 1
            /\ Alpha(kj.tangent, kj.c4_c5, kj.c5_c6) >= 30)
    /\ [][(pc \in {"c5_c6", "c5_c6_loop"}) => pc' # "raised"]_vars

\* the indices the length-ratio loops are given: c4_c5 < c5_c6 <= c6_c7 <= N-1
LengthRatioArguments ==
    /\ kj.c4_c5 < kj.c5_c6
    /\ kj.c5_c6 <= kj.c6_c7
    /\ kj.c6_c7 <= Len(line) - 1

\* C24: the length-ratio loops terminate, spans below 10 indices included:
\* every test of adjust_c5_c6_interface or adjust_c6_c7_interface either
\* returns or moves its index, and c6_c7 is never moved past index N-1.
LengthRatioLoopsTerminate ==
    /\ []((pc = "adjust_c5_c6" /\ LengthRatioArguments) =>
            ENABLED <<KjAdjustC5C6>>_vars)
    /\ []((pc = "adjust_c6_c7" /\ LengthRatioArguments) =>
            ENABLED <<KjAdjustC6C7>>_vars)
    /\ [][(pc = "adjust_c6_c7" /\ LengthRatioArguments) =>
            (pc' # "raised" /\ kj'.c6_c7 <= Len(line) - 1)]_vars

(***************************************************************************)
(* Kjeldsberg rule engine: the diverging arteries picked by hand.          *)
(***************************************************************************)
\* C25: mark_diverging_arteries sets the classification flag exactly when
\* one of the two divergence indices at least is not None, an index of 0
\* with the other index None included.
FlagIffSomeDivergenceIndex ==
    (algorithm = "kjeldsberg" /\ pc = "c4_c5" /\ kj.manual) =>
        (kj.classify_with_diverging_arteries <=>
            (kj.ophthalmic_id # None \/ kj.p_com_a_id # None))

\* mark_diverging_arteries is running
Marking == algorithm = "kjeldsberg" /\ pc \in {"diverging", "prompt_p_com", "mark"} /\ kj.manual

\* the 'try again' message was printed on every pass but the first
TryAgainOnRetriesOnly(shown, try_again) ==
    try_again = IF shown = 0 THEN 0 ELSE shown - 1

\* C26: each prompt of mark_diverging_arteries is repeated until no or one
\* point is picked, the second prompt starts only when the first is
\* resolved, 'try again' is printed on every retry and never on a first
\* attempt, a divergence index is computed from a selection of exactly one
\* point and is None for an empty one, and the function returns once the
\* selector answers each prompt with no or one point.
PromptsRepeatUntilValid ==
    /\ [](Marking =>
            /\ TryAgainOnRetriesOnly(kj.shown_ophthalmic,
                                     kj.try_again_ophthalmic)
            /\ TryAgainOnRetriesOnly(kj.shown_p_com, kj.try_again_p_com)
            /\ kj.shown_p_com > 0 => kj.picked_ophthalmic \in {0, 1}
            /\ pc = "diverging" =>
                  kj.picked_ophthalmic \in {None} \cup (2..MaxPicked)
            /\ pc = "prompt_p_com" =>
                  /\ kj.picked_ophthalmic \in {0, 1}
                  /\ kj.picked_p_com \in {None} \cup (2..MaxPicked)
            /\ pc = "mark" =>
                  /\ kj.picked_ophthalmic \in {0, 1}
                  /\ kj.picked_p_com \in {0, 1})
    /\ [][(Marking /\ pc = "mark" /\ pc' # "mark") =>
            /\ pc' = "c4_c5"
            /\ kj'.ophthalmic_id # None <=> kj.picked_ophthalmic = 1
            /\ kj'.p_com_a_id # None <=> kj.picked_p_com = 1]_vars
    /\ (Marking ~> (pc = "c4_c5"))

\* both prompts had to be repeated, then one point was picked for the
\* ophthalmic artery and none for the posterior communicating artery
PromptsRepeatedWitness ==
    /\ Marking
    /\ pc = "mark"
    /\ kj.try_again_ophthalmic > 0
    /\ kj.try_again_p_com > 0
    /\ kj.picked_ophthalmic = 1
    /\ kj.picked_p_com = 0

(***************************************************************************)
(* Bogunovic rule engine: the order of the interfaces.                     *)
(***************************************************************************)
\* the last curvature maximum that precedes the coronal extremum
LastMaximumBeforeCoronal ==
    SetMax({v \in Range(max_point_ids) : v < max_coronal_coordinate_id})

\* C27: when landmarking_bogunovic succeeds, inf_end < post_inf < ant_post <
\* sup_ant, with ant_post below and sup_ant above the last curvature maximum
\* that precedes the coronal extremum.
BogInterfacesOrdered ==
    (algorithm = "bogunovic" /\ pc \in {"landmarks", "save", "done"}) =>
        /\ DictGet(interfaces, "inf_end") < DictGet(interfaces, "post_inf")
        /\ DictGet(interfaces, "post_inf") < DictGet(interfaces, "ant_post")
        /\ DictGet(interfaces, "ant_post") < LastMaximumBeforeCoronal
        /\ LastMaximumBeforeCoronal < DictGet(interfaces, "sup_ant")

\* a successful run with all four interfaces found by a crossing
BogInterfacesOrderedWitness ==
    /\ algorithm = "bogunovic"
    /\ pc = "landmarks"
    /\ DictGet(interfaces, "inf_end") > 0

(***************************************************************************)
(* Kjeldsberg rule engine: the indices handed to GetPoint.                 *)
(***************************************************************************)
\* C28: every interface index that landmarking_kjeldsberg turns into a
\* landmark point lies in 0..N-1, after the diverging-artery override and
\* the shift of C4-C5 too.
KjInterfacesOnCurve ==
    (algorithm = "kjeldsberg" /\ pc = "landmarks") =>
        \A q \in 1..Len(interfaces) :
            interfaces[q][2] \in 0..(Len(line) - 1)

(***************************************************************************)
(* Piccinelli rule engine: the maxima left by the collapse step.           *)
(***************************************************************************)
\* any two neighbours of the list are at least 70 indices apart
ApartByTolerance(ids) ==
    \A q \in 1..(Len(ids) - 1) : ids[q + 1] - ids[q] >= 70

\* C29: after the collapse step any two adjacent remaining curvature maxima
\* are at least 70 indices apart, and so are any two adjacent remaining
\* torsion maxima.
CollapsedMaximaApart ==
    (algorithm = "piccinelli" /\ pc = "find_interface") =>
        /\ ApartByTolerance(max_point_ids)
        /\ ApartByTolerance(max_point_tor_ids)

(***************************************************************************)
(* The extrema returned with the spline.                                   *)
(***************************************************************************)
\* C30: spline_centerline_and_compute_geometric_features returns one index
\* for every maximum and one for every minimum of the spline curvature,
\* also when there are more of the one kind than of the other.
SplineReturnsEveryExtremum ==
    (algorithm = "bogunovic" /\ method = "spline" /\ pc = "saddle") =>
        /\ Len(max_point_ids) =
              Cardinality(ArgRelExtremaSet(curvature, "greater"))
        /\ Len(min_point_ids) =
              Cardinality(ArgRelExtremaSet(curvature, "less"))

=============================================================================
